---- MODULE Spec2Model ----
(***************************************************************************)
(* Verification model of greentic-session.                                 *)
(*                                                                         *)
(* Part I  : the Redis CAS store (src/src/redis_store.rs, model.rs).       *)
(*           Every Redis command is one atomic step; a store call is a     *)
(*           sequence of such steps run by a client process.               *)
(* Part II : the in-memory routing store (src/src/inmemory.rs).            *)
(***************************************************************************)
EXTENDS Integers, Sequences, FiniteSets, TLC

(***************************************************************************)
(* Bounds                                                                  *)
(***************************************************************************)
MaxCas == 3
MaxTime == 1
MaxTtl == 1

(***************************************************************************)
(* Part I : value types of the CAS store                                   *)
(***************************************************************************)
Procs == {"p1", "p2"}
Keys == {"k1"}
Tenants == {"ta", "tb"}
Payloads == {1, 2}
Ttls == {0, MaxTtl}   \* no expiry, or the longest ttl
TtlOpts == {<<>>} \cup {<<t>> : t \in Ttls}

H1 == "h1"
H2 == "h2"

OutboxEntry(seq, sha, created) == [seq |-> seq, payload_sha256 |-> sha, created_at |-> created]

\* the outbox a writer attaches to its payload; both carry a duplicated (seq, hash)
OutboxFor(pl) ==
    IF pl = 1 THEN <<OutboxEntry(1, H1, 0), OutboxEntry(1, H1, 1), OutboxEntry(2, H2, 0)>>
    ELSE <<OutboxEntry(2, H2, 0), OutboxEntry(1, H1, 0), OutboxEntry(2, H2, 1)>>

Session(k, t, pl, ob, ua, ttl) ==
    [key |-> k, tenant_id |-> t, outbox_seq |-> pl, outbox |-> ob, updated_at |-> ua, ttl_secs |-> ttl]

Sessions == {Session(k, t, pl, OutboxFor(pl), 0, ttl) : k \in Keys, t \in Tenants, pl \in Payloads, ttl \in Ttls}

\* model.rs Cas
CasInitial == 1
CasNone == 0
CasNext(c) == c + 1   \* u64 wrapping_add(1); the wrap is beyond every bound used here

\* Session::dedupe_outbox: retain the first occurrence of each (seq, payload_sha256)
RECURSIVE DedupeFrom(_, _, _)
DedupeFrom(ob, i, seen) ==
    IF i > Len(ob) THEN <<>>
    ELSE LET id == <<ob[i].seq, ob[i].payload_sha256>>
         IN IF id \in seen THEN DedupeFrom(ob, i + 1, seen)
            ELSE <<ob[i]>> \o DedupeFrom(ob, i + 1, seen \cup {id})

\* a normalization that retains every entry
dedupe_outbox_keep_all(ob) == ob

dedupe_outbox(ob) == DedupeFrom(ob, 1, {})

\* Session::normalize: dedupe the outbox; a zero ttl stays zero
normalize(s) == [s EXCEPT !.outbox = dedupe_outbox(s.outbox),
                          !.ttl_secs = IF s.ttl_secs = 0 THEN 0 ELSE s.ttl_secs]

\* SessionEnvelope::new
SessionEnvelope(s, cas) == [cas |-> cas, session |-> normalize(s)]

(***************************************************************************)
(* Part I : state                                                          *)
(***************************************************************************)
VARIABLES
    rdata,      \* Redis: data_key(tenant, key) -> <<>> or <<[val |-> envelope, exp |-> deadline or 0]>>
    rlookup,    \* Redis: lookup_key(key)       -> <<>> or <<[val |-> tenant,   exp |-> deadline or 0]>>
    rnow,       \* Redis server clock, in seconds
    pc,         \* per client: position inside the running call
    call,       \* per client: the call being run / last run
    loc,        \* per client: local variables of the running call
    race,       \* history: the two-writer scenario being observed
    commits,    \* history: per key, the last two CAS values committed by put / update_cas
    okFloor,    \* history: per key, the largest CAS an update_cas has returned Ok for
    prevDone,   \* history: the write that the last completed get followed, if any
    lastDone,   \* history: the last completed call
    observe     \* which histories are kept: "writers" (race, commits, okFloor), "calls" (prevDone, lastDone),
                \* "fence" (mlast of update_session, register_wait), "find" (mlast of find_by_user),
                \* "route" (bound, mlast of the wait lookups), "replace" (mlast of register_wait, clear_wait),
                \* "expiry" (mlast of reads meeting an expired wait), "data" (written, mlast of get, remove,
                \* update), "frame" (mlast of unbinding calls and updates), "lapse" (mlast of
                \* writes to expired sessions), "heal" (finder) "ttl" (prevDone: the last write,
                \* lastDone: the gets), "mirror" (lastDone of touch) or "purge" (prevDone, lastDone:
                \* a put and a purging get or touch that overlap)

casVars == <<rdata, rlookup, rnow, pc, call, loc, race, commits, okFloor, prevDone, lastDone, observe>>

\* the in-memory routing store of Part II
VARIABLES
    sessions,     \* HashMap<SessionKey, SessionEntry>
    user_waits,   \* HashMap<UserLookupKey, HashSet<SessionKey>>
    scope_index,  \* HashMap<ScopeLookupKey, ScopeEntry>
    mnow,         \* Instant::now(), in ticks
    mlast,        \* history: the last completed call and what it returned
    bound,        \* history: the scopes bound to keys by register_wait calls, while nothing else intervened
    written,      \* history: the payload last stored under each key by the four session operations
    finder,       \* a second caller inside find_wait_by_scope or list_waits_for_user, one lock at a time
    in_ctx,       \* alignment check: the caller context handed to create_session
    in_data,      \* alignment check: the session data handed to create_session
    in_pc         \* alignment check: "off", "start" or "done"

memVars == <<sessions, user_waits, scope_index, mnow, mlast, bound, written, finder, in_ctx, in_data, in_pc>>

\* Part III: the Redis routing store next to the in-memory one, and the key mapping
VARIABLES
    rstore,     \* Redis: the session entries, the user wait sets and the scope keys
    rlast,      \* history: the last call made on both routing stores and what each returned
    mapping     \* the fields handed to a key mapping function and the keys it returned

\* Part IV: callers of the in-memory store running side by side, one lock at a time
VARIABLES
    threads     \* each thread's place in its call, its arguments and locals, and the guards it holds

extVars == <<rstore, rlast, mapping, threads>>

vars == <<casVars, memVars, extVars>>

\* RedisSessionStore::data_key / lookup_key: the keyspace is split in two maps,
\* which is what the format strings give as long as no tenant is named "lookup".
data_key(tenant_id, key) == <<tenant_id, key>>
lookup_key(key) == key

NoCall == [op |-> "none", key |-> "k1", tenant |-> "ta", session |-> <<>>, expected |-> 0, ttl |-> <<>>,
           pre |-> 0, any |-> FALSE, own |-> FALSE, floor |-> 0, sub |-> FALSE, lapsed |-> FALSE, at |-> 0]
NoLoc == [tenant |-> <<>>, env |-> <<>>, cas |-> 0, removed |-> FALSE]
NoRes == [tag |-> "none", cas |-> 0, sess |-> <<>>, ok |-> FALSE]
NoRace == [on |-> FALSE, key |-> "k1", tenant |-> "ta", c |-> 0, who |-> {}, okBy |-> {}, errBy |-> {},
           bad |-> FALSE, wsess |-> <<>>, gets |-> {}]
NoDone == [op |-> "none", key |-> "k1", tenant |-> "ta", pre |-> 0, any |-> FALSE, own |-> FALSE,
           floor |-> 0, lapsed |-> FALSE, arg |-> <<>>, ttl |-> <<>>, at |-> 0, end |-> 0, res |-> NoRes]

CasInit(obs) ==
    /\ observe = obs
    /\ rdata = [x \in Tenants \X Keys |-> <<>>]
    /\ rlookup = [k \in Keys |-> <<>>]
    /\ rnow = 0
    /\ pc = [p \in Procs |-> "idle"]
    /\ call = [p \in Procs |-> NoCall]
    /\ loc = [p \in Procs |-> NoLoc]
    /\ race = NoRace
    /\ commits = [k \in Keys |-> [prev |-> 0, last |-> 0]]
    /\ okFloor = [k \in Keys |-> 0]
    /\ prevDone = NoDone
    /\ lastDone = NoDone

(***************************************************************************)
(* Part I : Redis commands                                                 *)
(***************************************************************************)
\* deadline of a key written at rnow with the given ttl (0 = no expiry)
Deadline(ttl) == IF ttl > 0 THEN rnow + ttl ELSE 0

\* resolve_tenant: GET lookup_key
resolve_tenant(key) == IF rlookup[lookup_key(key)] = <<>> THEN <<>> ELSE <<rlookup[lookup_key(key)][1].val>>

\* load_envelope: GET data key, decoded
load_envelope(dkey) == IF rdata[dkey] = <<>> THEN <<>> ELSE <<rdata[dkey][1].val>>

\* set_payload: SET key payload [EX ttl]
set_payload(d, dkey, payload, ttl_secs) == [d EXCEPT ![dkey] = <<[val |-> payload, exp |-> Deadline(ttl_secs)]>>]

\* sync_lookup: SET lookup tenant [EX ttl]
sync_lookup(l, key, tenant_id, ttl_secs) ==
    [l EXCEPT ![lookup_key(key)] = <<[val |-> tenant_id, exp |-> Deadline(ttl_secs)]>>]

\* touch_lookup: EXPIRE lookup ttl / PERSIST lookup (both no-ops on a missing key)
touch_lookup(l, key, ttl_secs) ==
    IF l[lookup_key(key)] = <<>> THEN l
    ELSE [l EXCEPT ![lookup_key(key)] = <<[val |-> @[1].val, exp |-> Deadline(ttl_secs)]>>]

\* purge_lookup: DEL lookup
purge_lookup(l, key) == [l EXCEPT ![lookup_key(key)] = <<>>]

\* mutant: the script writes without comparing the stored CAS with the expected one
UPDATE_LUA_no_compare(d, dkey, expected, payload, ttl, new_cas) ==
    IF d[dkey] = <<>> THEN [status |-> 0, cas |-> 0, data |-> d]
    ELSE [status |-> 2, cas |-> new_cas,
          data |-> [d EXCEPT ![dkey] = <<[val |-> payload, exp |-> Deadline(ttl)]>>]]

\* mutant: the script creates the record when the key is absent
UPDATE_LUA_upsert(d, dkey, expected, payload, ttl, new_cas) ==
    IF d[dkey] # <<>> /\ d[dkey][1].val.cas # expected
    THEN [status |-> 1, cas |-> d[dkey][1].val.cas, data |-> d]
    ELSE [status |-> 2, cas |-> new_cas,
          data |-> [d EXCEPT ![dkey] = <<[val |-> payload, exp |-> Deadline(ttl)]>>]]

\* UPDATE_LUA, run atomically by the server
UPDATE_LUA(d, dkey, expected, payload, ttl, new_cas) ==
    IF d[dkey] = <<>> THEN [status |-> 0, cas |-> 0, data |-> d]
    ELSE LET current == d[dkey][1].val.cas
         IN IF current # expected THEN [status |-> 1, cas |-> current, data |-> d]
            ELSE [status |-> 2, cas |-> new_cas,
                  data |-> [d EXCEPT ![dkey] = <<[val |-> payload, exp |-> Deadline(ttl)]>>]]

\* what a get(key) run without interference returns: 0 when None, else the CAS
ViewCas(key) ==
    LET t == resolve_tenant(key)
    IN IF t = <<>> THEN 0
       ELSE IF load_envelope(data_key(t[1], key)) = <<>> THEN 0
            ELSE load_envelope(data_key(t[1], key))[1].cas

(***************************************************************************)
(* Part I : history bookkeeping (observes the calls, never steers them)    *)
(***************************************************************************)
Max(a, b) == IF a >= b THEN a ELSE b

Quiet == \A q \in Procs : pc[q] = "idle"

OthersIdle(p) == \A q \in Procs \ {p} : pc[q] = "idle"

\* a delete(k) call is in flight
Deleting(k) == \E q \in Procs : call[q].op = "delete" /\ call[q].key = k

\* a record of key k was removed (DEL or expiry): forget what was observed about k
ForgetRace(rc, k) == IF rc.on /\ rc.key = k THEN NoRace ELSE rc
ForgetCommits(c, k) == [c EXCEPT ![k] = [prev |-> 0, last |-> 0]]
ForgetFloor(f, k) == [f EXCEPT ![k] = 0]
ForgetCalls(cl, k) == [p \in Procs |-> IF cl[p].key = k THEN [cl[p] EXCEPT !.floor = 0, !.sub = FALSE] ELSE cl[p]]

\* the two-writer scenario: a call begins
RaceBegin(p, op, k, t, e) ==
    IF observe # "writers" THEN NoRace
    ELSE IF op = "get" THEN race
    ELSE IF op # "update_cas" THEN NoRace
    ELSE IF race.on /\ race.key = k /\ race.tenant = t /\ race.c = e /\ p \notin race.who
            /\ Cardinality(race.who) = 1
         THEN [race EXCEPT !.who = @ \cup {p}]
    ELSE IF /\ OthersIdle(p)
            /\ resolve_tenant(k) = <<t>>
            /\ load_envelope(data_key(t, k)) # <<>>
            /\ load_envelope(data_key(t, k))[1].cas = e
         THEN [NoRace EXCEPT !.on = TRUE, !.key = k, !.tenant = t, !.c = e, !.who = {p}]
    ELSE NoRace

\* the two-writer scenario: a call returns r
RaceDone(rc, p, c, r) ==
    IF ~rc.on THEN rc
    ELSE IF c.op = "update_cas" /\ p \in rc.who /\ p \notin (rc.okBy \cup rc.errBy)
         THEN IF r.tag = "Ok" /\ r.cas = rc.c + 1
                 THEN [rc EXCEPT !.okBy = @ \cup {p}, !.wsess = r.sess]
              ELSE IF r.tag = "Err" /\ r.cas = rc.c + 1
                 THEN [rc EXCEPT !.errBy = @ \cup {p}]
              ELSE [rc EXCEPT !.bad = TRUE]
    ELSE IF c.op = "get" /\ c.sub
         THEN [rc EXCEPT !.gets = @ \cup {<<r.tag, r.cas, r.sess>>}]
    ELSE rc

\* the write whose ttl governs the record: a put, an accepted update_cas or touch is kept
\* with the ttl it carried and the times it began and returned at; a get leaves it
\* alone, any other call ends it
LastWrite(p, c, r) ==
    IF c.op = "get" THEN prevDone
    ELSE IF c.op = "put" \/ (c.op = "update_cas" /\ r.tag = "Ok")
         THEN [NoDone EXCEPT !.op = c.op, !.key = c.key, !.ttl = <<c.session[1].ttl_secs>>,
                             !.at = c.at, !.end = rnow]
    ELSE IF c.op = "touch" /\ r.ok
         THEN [NoDone EXCEPT !.op = c.op, !.key = c.key, !.arg = c.ttl,
                             !.ttl = <<loc[p].env[1].session.ttl_secs>>, !.at = c.at, !.end = rnow]
    ELSE NoDone

\* is p returning from the branch of get or touch that found the record missing
\* and deleted the lookup entry
Purged(p) == pc[p] \in {"get_purge", "touch_purge"}

\* is another client inside a call of one of the kinds ops on key
Overlaps(p, ops, key) == \E q \in Procs \ {p} : call[q].op \in ops /\ call[q].key = key

\* the first return of a put and a purging get or touch that overlap: the put, with what
\* it returned, while the get or touch runs, or the purging call while the put runs
FirstOfPair(p, c, r) ==
    IF c.op = "put" /\ Overlaps(p, {"get", "touch"}, c.key)
    THEN [NoDone EXCEPT !.op = "put", !.key = c.key, !.res = r]
    ELSE IF Purged(p) /\ Overlaps(p, {"put"}, c.key)
    THEN [NoDone EXCEPT !.op = c.op, !.key = c.key]
    ELSE NoDone

\* the second return of such a pair: the purging call, kept with what the put returned
SecondOfPair(p, c, r) ==
    IF Purged(p) /\ prevDone.op = "put" /\ prevDone.key = c.key
    THEN [NoDone EXCEPT !.op = c.op, !.key = c.key, !.res = prevDone.res]
    ELSE IF c.op = "put" /\ prevDone.op \in {"get", "touch"} /\ prevDone.key = c.key
    THEN [NoDone EXCEPT !.op = prevDone.op, !.key = c.key, !.res = r]
    ELSE NoDone

\* the call c of p returns r; rc, fl are the histories as left by this step so far
Done(p, c, r, rc, fl) ==
    /\ pc' = [pc EXCEPT ![p] = "idle"]
    /\ loc' = [loc EXCEPT ![p] = NoLoc]
    /\ call' = [call EXCEPT ![p] = NoCall]
    /\ UNCHANGED <<observe, memVars, extVars>>
    /\ race' = RaceDone(rc, p, c, r)
    /\ okFloor' = IF observe = "writers" /\ c.op = "update_cas" /\ r.tag = "Ok" /\ ~Deleting(c.key)
                  THEN [fl EXCEPT ![c.key] = Max(@, r.cas)] ELSE fl
    /\ prevDone' = IF observe = "calls" /\ c.op = "get" /\ lastDone.op \in {"put", "update_cas"}
                      /\ lastDone.key = c.key
                   THEN lastDone
                   ELSE IF observe = "ttl" THEN LastWrite(p, c, r)
                   ELSE IF observe = "purge" THEN FirstOfPair(p, c, r)
                   ELSE NoDone
    /\ lastDone' = IF observe = "calls"
                   THEN [NoDone EXCEPT !.op = c.op, !.key = c.key, !.tenant = c.tenant, !.pre = c.pre,
                                       !.any = c.any, !.own = c.own, !.floor = c.floor,
                                       !.lapsed = c.lapsed, !.res = r]
                   ELSE IF observe = "ttl"
                   THEN IF c.op = "get"
                        THEN [NoDone EXCEPT !.op = "get", !.key = c.key, !.at = c.at, !.end = rnow,
                                            !.res = [NoRes EXCEPT !.tag = r.tag]]
                        ELSE NoDone
                   ELSE IF observe = "mirror"
                   THEN IF c.op = "touch"
                        THEN [NoDone EXCEPT !.op = "touch", !.key = c.key, !.pre = c.pre,
                                            !.lapsed = (c.at # rnow),
                                            !.any = (\E t \in Tenants : rdata[data_key(t, c.key)] # <<>>),
                                            !.res = r]
                        ELSE NoDone
                   ELSE IF observe = "purge" THEN SecondOfPair(p, c, r)
                   ELSE IF c.op = "get" THEN [NoDone EXCEPT !.op = "get", !.key = c.key, !.floor = c.floor, !.res = r]
                   ELSE NoDone

Goto(p, label) ==
    /\ pc' = [pc EXCEPT ![p] = label]
    /\ UNCHANGED <<prevDone, lastDone, observe>>
    /\ UNCHANGED <<memVars, extVars>>

ResNone == [NoRes EXCEPT !.tag = "None"]
ResSome(s, c) == [NoRes EXCEPT !.tag = "Some", !.cas = c, !.sess = <<s>>]
ResCas(c, s) == [NoRes EXCEPT !.tag = "Cas", !.cas = c, !.sess = <<s>>]
ResOk(c, s) == [NoRes EXCEPT !.tag = "Ok", !.cas = c, !.sess = <<s>>]
ResErr(c) == [NoRes EXCEPT !.tag = "Err", !.cas = c]
ResBool(b) == [NoRes EXCEPT !.tag = "Bool", !.ok = b]

\* what is recorded about the store when a call on (key, tenant) begins
Begin(op, key, tenant_id) ==
    IF observe = "calls"
    THEN [NoCall EXCEPT !.op = op, !.key = key, !.tenant = tenant_id,
                        !.pre = ViewCas(key),
                        !.any = (\E t \in Tenants : rdata[data_key(t, key)] # <<>>),
                        !.own = (rdata[data_key(tenant_id, key)] # <<>>)]
    ELSE IF observe = "ttl" THEN [NoCall EXCEPT !.op = op, !.key = key, !.at = rnow]
    ELSE IF observe = "mirror" /\ op = "touch"
         THEN [NoCall EXCEPT !.op = op, !.key = key, !.at = rnow,
                             !.pre = IF ViewCas(key) > 0 THEN 1 ELSE 0]
    ELSE [NoCall EXCEPT !.op = op, !.key = key]

RaceOver(k) ==
    /\ race.on /\ race.key = k
    /\ Cardinality(race.who) = 2
    /\ race.who = race.okBy \cup race.errBy

Commit(k, cas) == IF observe = "writers" THEN [commits EXCEPT ![k] = [prev |-> @.last, last |-> cas]] ELSE commits

(***************************************************************************)
(* Part I : RedisSessionStore::get                                         *)
(***************************************************************************)
get_resolve(p, key) ==
    /\ pc[p] = "idle"
    /\ LET tenant_id == resolve_tenant(key)
           c == [Begin("get", key, "ta") EXCEPT !.own = FALSE,
                                                !.floor = IF Deleting(key) THEN 0 ELSE okFloor[key],
                                                !.sub = RaceOver(key)]
       IN IF tenant_id = <<>>
             THEN Done(p, c, ResNone, race, okFloor)
             ELSE /\ Goto(p, "get_load")
                  /\ call' = [call EXCEPT ![p] = c]
                  /\ loc' = [loc EXCEPT ![p].tenant = tenant_id]
                  /\ UNCHANGED <<race, okFloor>>
    /\ UNCHANGED <<rdata, rlookup, rnow, commits>>

get_load(p) ==
    /\ pc[p] = "get_load"
    /\ LET envelope == load_envelope(data_key(loc[p].tenant[1], call[p].key))
       IN IF envelope # <<>>
          THEN Done(p, call[p], ResSome(envelope[1].session, envelope[1].cas), race, okFloor)
          ELSE /\ Goto(p, "get_purge")
               /\ UNCHANGED <<call, loc, race, okFloor>>
    /\ UNCHANGED <<rdata, rlookup, rnow, commits>>

get_purge(p) ==
    /\ pc[p] = "get_purge"
    /\ rlookup' = purge_lookup(rlookup, call[p].key)
    /\ Done(p, call[p], ResNone, race, okFloor)
    /\ UNCHANGED <<rdata, rnow, commits>>

(***************************************************************************)
(* Part I : RedisSessionStore::put                                         *)
(***************************************************************************)
put_load(p, s) ==
    /\ pc[p] = "idle"
    /\ LET session == normalize([s EXCEPT !.updated_at = rnow])
           existing == load_envelope(data_key(session.tenant_id, session.key))
           cas == IF existing = <<>> THEN CasInitial ELSE CasNext(existing[1].cas)
       IN /\ cas <= MaxCas
          /\ call' = [call EXCEPT ![p] = [Begin("put", session.key, session.tenant_id) EXCEPT !.session = <<session>>]]
          /\ loc' = [loc EXCEPT ![p].cas = cas]
          /\ race' = RaceBegin(p, "put", session.key, session.tenant_id, 0)
    /\ Goto(p, "put_set")
    /\ UNCHANGED <<rdata, rlookup, rnow, commits, okFloor>>

put_set(p) ==
    /\ pc[p] = "put_set"
    /\ LET session == call[p].session[1]
           envelope == SessionEnvelope(session, loc[p].cas)
       IN /\ rdata' = set_payload(rdata, data_key(session.tenant_id, session.key), envelope, envelope.session.ttl_secs)
          /\ commits' = Commit(session.key, loc[p].cas)
    /\ Goto(p, "put_sync")
    /\ UNCHANGED <<rlookup, rnow, call, loc, race, okFloor>>

put_sync(p) ==
    /\ pc[p] = "put_sync"
    /\ LET session == call[p].session[1]
       IN /\ rlookup' = sync_lookup(rlookup, session.key, session.tenant_id, session.ttl_secs)
          /\ Done(p, call[p], ResCas(loc[p].cas, session), race, okFloor)
    /\ UNCHANGED <<rdata, rnow, commits>>

(***************************************************************************)
(* Part I : RedisSessionStore::update_cas                                  *)
(***************************************************************************)
update_cas_script(p, s, expected) ==
    /\ pc[p] = "idle"
    /\ CasNext(expected) <= MaxCas
    /\ LET session == normalize([s EXCEPT !.updated_at = rnow])
           new_cas == CasNext(expected)
           envelope == SessionEnvelope(session, new_cas)
           redis_key == data_key(session.tenant_id, session.key)
           r == UPDATE_LUA(rdata, redis_key, expected, envelope, envelope.session.ttl_secs, new_cas)
           c == [Begin("update_cas", session.key, session.tenant_id) EXCEPT !.session = <<session>>, !.expected = expected]
           rc == RaceBegin(p, "update_cas", session.key, session.tenant_id, expected)
       IN /\ rdata' = r.data
          /\ CASE r.status = 0 ->
                    /\ Goto(p, "update_cas_purge")
                    /\ call' = [call EXCEPT ![p] = c]
                    /\ race' = rc
                    /\ UNCHANGED <<loc, commits, okFloor>>
               [] r.status = 1 ->
                    /\ Done(p, c, ResErr(r.cas), rc, okFloor)
                    /\ UNCHANGED commits
               [] r.status = 2 ->
                    /\ Goto(p, "update_cas_touch")
                    /\ call' = [call EXCEPT ![p] = c]
                    /\ race' = rc
                    /\ commits' = Commit(session.key, new_cas)
                    /\ UNCHANGED <<loc, okFloor>>
    /\ UNCHANGED <<rlookup, rnow>>

update_cas_purge(p) ==
    /\ pc[p] = "update_cas_purge"
    /\ rlookup' = purge_lookup(rlookup, call[p].key)
    /\ Done(p, call[p], ResErr(CasNone), race, okFloor)
    /\ UNCHANGED <<rdata, rnow, commits>>

update_cas_touch(p) ==
    /\ pc[p] = "update_cas_touch"
    /\ LET session == call[p].session[1]
       IN /\ rlookup' = touch_lookup(rlookup, session.key, session.ttl_secs)
          /\ Done(p, call[p], ResOk(CasNext(call[p].expected), session), race, okFloor)
    /\ UNCHANGED <<rdata, rnow, commits>>

(***************************************************************************)
(* Part I : RedisSessionStore::delete                                      *)
(***************************************************************************)
delete_resolve(p, key) ==
    /\ pc[p] = "idle"
    /\ LET tenant_id == resolve_tenant(key)
           c == [Begin("delete", key, "ta") EXCEPT !.own = FALSE]
           rc == RaceBegin(p, "delete", key, "ta", 0)
       IN IF tenant_id = <<>>
             THEN Done(p, c, ResBool(FALSE), rc, okFloor)
             ELSE /\ Goto(p, "delete_data")
                  /\ call' = [ForgetCalls(call, key) EXCEPT ![p] = c]
                  /\ loc' = [loc EXCEPT ![p].tenant = tenant_id]
                  /\ race' = rc
                  /\ okFloor' = ForgetFloor(okFloor, key)
    /\ UNCHANGED <<rdata, rlookup, rnow, commits>>

delete_data(p) ==
    /\ pc[p] = "delete_data"
    /\ LET key == call[p].key
           redis_key == data_key(loc[p].tenant[1], key)
           removed == rdata[redis_key] # <<>>
       IN /\ rdata' = [rdata EXCEPT ![redis_key] = <<>>]
          /\ loc' = [loc EXCEPT ![p].removed = removed]
          /\ race' = IF removed THEN ForgetRace(race, key) ELSE race
          /\ commits' = IF removed THEN ForgetCommits(commits, key) ELSE commits
    /\ Goto(p, "delete_lookup")
    /\ UNCHANGED <<rlookup, rnow, call, okFloor>>

delete_lookup(p) ==
    /\ pc[p] = "delete_lookup"
    /\ rlookup' = purge_lookup(rlookup, call[p].key)
    /\ Done(p, call[p], ResBool(loc[p].removed), race, okFloor)
    /\ UNCHANGED <<rdata, rnow, commits>>

(***************************************************************************)
(* Part I : RedisSessionStore::touch                                       *)
(***************************************************************************)
touch_resolve(p, key, ttl_secs) ==
    /\ pc[p] = "idle"
    /\ LET tenant_id == resolve_tenant(key)
           c == [Begin("touch", key, "ta") EXCEPT !.own = FALSE, !.ttl = ttl_secs]
           rc == RaceBegin(p, "touch", key, "ta", 0)
       IN IF tenant_id = <<>>
             THEN Done(p, c, ResBool(FALSE), rc, okFloor)
             ELSE /\ Goto(p, "touch_load")
                  /\ call' = [call EXCEPT ![p] = c]
                  /\ loc' = [loc EXCEPT ![p].tenant = tenant_id]
                  /\ race' = rc
                  /\ UNCHANGED okFloor
    /\ UNCHANGED <<rdata, rlookup, rnow, commits>>

touch_load(p) ==
    /\ pc[p] = "touch_load"
    /\ LET envelope == load_envelope(data_key(loc[p].tenant[1], call[p].key))
       IN IF envelope = <<>>
          THEN /\ Goto(p, "touch_purge")
               /\ UNCHANGED loc
          ELSE /\ Goto(p, "touch_script")
               /\ loc' = [loc EXCEPT ![p].env = envelope]
    /\ UNCHANGED <<rdata, rlookup, rnow, call, race, commits, okFloor>>

touch_purge(p) ==
    /\ pc[p] = "touch_purge"
    /\ rlookup' = purge_lookup(rlookup, call[p].key)
    /\ Done(p, call[p], ResBool(FALSE), race, okFloor)
    /\ UNCHANGED <<rdata, rnow, commits>>

touch_script(p) ==
    /\ pc[p] = "touch_script"
    /\ LET old == loc[p].env[1]
           ttl_secs == IF call[p].ttl = <<>> THEN old.session.ttl_secs ELSE call[p].ttl[1]
           envelope == [cas |-> old.cas,
                        session |-> [old.session EXCEPT !.updated_at = rnow, !.ttl_secs = ttl_secs]]
           redis_key == data_key(loc[p].tenant[1], call[p].key)
           r == UPDATE_LUA(rdata, redis_key, envelope.cas, envelope, ttl_secs, envelope.cas)
       IN /\ rdata' = r.data
          /\ CASE r.status = 2 ->
                    /\ Goto(p, "touch_expire")
                    /\ loc' = [loc EXCEPT ![p].env = <<envelope>>]
                    /\ UNCHANGED <<call, race, okFloor>>
               [] r.status = 0 ->
                    /\ Goto(p, "touch_purge")
                    /\ UNCHANGED <<call, loc, race, okFloor>>
               [] r.status = 1 ->
                    Done(p, call[p], ResBool(FALSE), race, okFloor)
    /\ UNCHANGED <<rlookup, rnow, commits>>

touch_expire(p) ==
    /\ pc[p] = "touch_expire"
    /\ rlookup' = touch_lookup(rlookup, call[p].key, loc[p].env[1].session.ttl_secs)
    /\ Done(p, call[p], ResBool(TRUE), race, okFloor)
    /\ UNCHANGED <<rdata, rnow, commits>>

(***************************************************************************)
(* Part I : the Redis server clock; a key whose deadline is reached is gone *)
(***************************************************************************)
\* how far the clock runs: past the longest deadline where deadlines are observed
Horizon == IF observe = "ttl" THEN MaxTime + MaxTtl + 1 ELSE MaxTime

Gone(entry, t) == entry # <<>> /\ entry[1].exp # 0 /\ entry[1].exp <= t

DataGoneKeys(t) == {k \in Keys : \E tn \in Tenants : Gone(rdata[data_key(tn, k)], t)}
AnyGoneKeys(t) == DataGoneKeys(t) \cup {k \in Keys : Gone(rlookup[lookup_key(k)], t)}

RedisTick ==
    /\ rnow < Horizon
    /\ rnow' = rnow + 1
    /\ rdata' = [x \in DOMAIN rdata |-> IF Gone(rdata[x], rnow + 1) THEN <<>> ELSE rdata[x]]
    /\ rlookup' = [x \in DOMAIN rlookup |-> IF Gone(rlookup[x], rnow + 1) THEN <<>> ELSE rlookup[x]]
    /\ race' = IF race.on /\ race.key \in AnyGoneKeys(rnow + 1) THEN NoRace ELSE race
    /\ commits' = [k \in Keys |-> IF k \in DataGoneKeys(rnow + 1) THEN [prev |-> 0, last |-> 0] ELSE commits[k]]
    /\ okFloor' = [k \in Keys |-> IF k \in DataGoneKeys(rnow + 1) THEN 0 ELSE okFloor[k]]
    /\ call' = [p \in Procs |-> IF call[p].op # "none" /\ call[p].key \in AnyGoneKeys(rnow + 1)
                                THEN [call[p] EXCEPT !.floor = 0, !.sub = FALSE, !.lapsed = TRUE]
                                ELSE call[p]]
    /\ prevDone' = IF observe # "ttl" /\ AnyGoneKeys(rnow + 1) # {} THEN NoDone ELSE prevDone
    /\ lastDone' = IF observe # "ttl" /\ AnyGoneKeys(rnow + 1) # {} THEN NoDone ELSE lastDone
    /\ UNCHANGED <<pc, loc, observe, memVars, extVars>>

(***************************************************************************)
(* Part II : value types of the in-memory routing store                    *)
(***************************************************************************)
MaxWaitTtl == 1

Nil == "nil"    \* Option::None of an identifier

Envs == {"dev", "prod"}
MTenants == {"ta", "tb"}
Teams == {"team-a", "team-b"}
Users == {"u1", "u2"}
\* next to the lock-by-lock lookup and on the Redis routing store the callers use one scope
Scopes == IF observe \in {"heal", "wall", "twin", "prune_redis", "lease"} THEN {"s1"} ELSE {"s1", "s2"}
SessionKeys == {"sk1", "sk2"}
WaitTtls == {<<>>} \cup {<<d>> : d \in 1..MaxWaitTtl}

\* greentic_types::TenantCtx: team and user each have a primary and a legacy slot
TenantCtx(env, tenant_id, team_id, team, user_id, user) ==
    [env |-> env, tenant_id |-> tenant_id, team_id |-> team_id, team |-> team,
     user_id |-> user_id, user |-> user]

\* greentic_types::SessionData: the tenant context and the opaque flow payload
SessionData(tenant_ctx, context_json) == [tenant_ctx |-> tenant_ctx, context_json |-> context_json]

normalize_team(ctx) == IF ctx.team_id # Nil THEN ctx.team_id ELSE ctx.team

normalize_user(ctx) == IF ctx.user_id # Nil THEN ctx.user_id ELSE ctx.user

\* ttl.map(|value| Instant::now() + value)
ttl_deadline(ttl, now) == IF ttl = <<>> THEN <<>> ELSE <<now + ttl[1]>>

\* deadline.map(|value| Instant::now() >= value).unwrap_or(false)
is_expired(deadline, now) == deadline # <<>> /\ now >= deadline[1]

UserLookupKey(ctx, user) ==
    [env |-> ctx.env, tenant |-> ctx.tenant_id, team |-> normalize_team(ctx), user |-> user]

\* ReplyScope::scope_hash, a digest of the scope's fields: distinct scopes, distinct hashes
scope_hash(scope) == <<"sha256", scope>>

ScopeLookupKey(ctx, user, scope) ==
    [env |-> ctx.env, tenant |-> ctx.tenant_id, team |-> normalize_team(ctx), user |-> user,
     scope_hash |-> scope_hash(scope)]

SessionEntry(data, expires_at, wait_user, scope_key) ==
    [data |-> data, expires_at |-> expires_at, wait_user |-> wait_user, scope_key |-> scope_key]

ScopeEntry(session_key, expires_at) == [session_key |-> session_key, expires_at |-> expires_at]

\* the alignment checks return the reason of the mismatch, or AlignOk
AlignOk == "ok"

\* mutant: the team is not compared
ensure_alignment_no_team(ctx, data) ==
    LET stored == data.tenant_ctx
    IN IF ctx.env # stored.env \/ ctx.tenant_id # stored.tenant_id THEN "env/tenant must match"
       ELSE IF normalize_user(stored) # Nil
            THEN IF normalize_user(ctx) = Nil
                 THEN "user required by session but missing in caller context"
                 ELSE IF normalize_user(stored) # normalize_user(ctx)
                      THEN "user must match stored session"
                      ELSE AlignOk
            ELSE AlignOk

\* mutant: a caller context without a user passes whatever user the data carries
ensure_alignment_user_optional(ctx, data) ==
    LET stored == data.tenant_ctx
    IN IF ctx.env # stored.env \/ ctx.tenant_id # stored.tenant_id THEN "env/tenant must match"
       ELSE IF normalize_team(ctx) # normalize_team(stored) THEN "team must match"
       ELSE IF normalize_user(stored) # Nil /\ normalize_user(ctx) # Nil
                                              /\ normalize_user(stored) # normalize_user(ctx)
            THEN "user must match stored session"
            ELSE AlignOk

ensure_alignment(ctx, data) ==
    LET stored == data.tenant_ctx
    IN IF ctx.env # stored.env \/ ctx.tenant_id # stored.tenant_id THEN "env/tenant must match"
       ELSE IF normalize_team(ctx) # normalize_team(stored) THEN "team must match"
       ELSE IF normalize_user(stored) # Nil
            THEN IF normalize_user(ctx) = Nil
                 THEN "user required by session but missing in caller context"
                 ELSE IF normalize_user(stored) # normalize_user(ctx)
                      THEN "user must match stored session"
                      ELSE AlignOk
            ELSE AlignOk

\* mutant: a user may be introduced where none was stored
ensure_ctx_preserved_user_added(existing, candidate) ==
    IF existing.env # candidate.env \/ existing.tenant_id # candidate.tenant_id
    THEN "env/tenant cannot change for an existing session"
    ELSE IF normalize_team(existing) # normalize_team(candidate)
    THEN "team cannot change for an existing session"
    ELSE IF normalize_user(existing) # Nil /\ normalize_user(candidate) # normalize_user(existing)
         THEN "user cannot change for an existing session"
         ELSE AlignOk

ensure_ctx_preserved(existing, candidate) ==
    IF existing.env # candidate.env \/ existing.tenant_id # candidate.tenant_id
    THEN "env/tenant cannot change for an existing session"
    ELSE IF normalize_team(existing) # normalize_team(candidate)
    THEN "team cannot change for an existing session"
    ELSE IF normalize_user(existing) # Nil
         THEN IF normalize_user(candidate) = normalize_user(existing) THEN AlignOk
              ELSE "user cannot change for an existing session"
         ELSE IF normalize_user(candidate) # Nil
              THEN "user cannot be introduced when none was stored"
              ELSE AlignOk

\* mutant: only the caller context is compared with the user of the wait
ensure_user_matches_ctx_only(ctx, user, data) ==
    IF normalize_user(ctx) # Nil /\ normalize_user(ctx) # user
    THEN "user must match tenant context when registering a wait"
    ELSE AlignOk

ensure_user_matches(ctx, user, data) ==
    IF normalize_user(ctx) # Nil /\ normalize_user(ctx) # user
    THEN "user must match tenant context when registering a wait"
    ELSE IF normalize_user(data.tenant_ctx) # Nil
         THEN IF normalize_user(data.tenant_ctx) # user
              THEN "user must match session data when registering a wait"
              ELSE AlignOk
         ELSE "user required by wait but missing in session data"

\* mutant: the team of the stored session is not compared
FenceMismatch_no_team(stored_ctx, ctx, user_id) ==
    \/ stored_ctx.env # ctx.env
    \/ stored_ctx.tenant_id # ctx.tenant_id
    \/ (normalize_user(stored_ctx) # Nil /\ normalize_user(stored_ctx) # user_id)

\* the fence a find compares: env, tenant, normalized team, and the user when one is stored
FenceMismatch(stored_ctx, ctx, user_id) ==
    \/ stored_ctx.env # ctx.env
    \/ stored_ctx.tenant_id # ctx.tenant_id
    \/ normalize_team(stored_ctx) # normalize_team(ctx)
    \/ (normalize_user(stored_ctx) # Nil /\ normalize_user(stored_ctx) # user_id)

(***************************************************************************)
(* Part II : state                                                          *)
(***************************************************************************)
\* hash maps: a function whose domain is the set of present keys
EmptyMap == [x \in {} |-> {}]
MapPut(m, k, v) == [x \in DOMAIN m \cup {k} |-> IF x = k THEN v ELSE m[x]]
MapDel(m, k) == [x \in DOMAIN m \ {k} |-> m[x]]

Store(s, u, i) == [sessions |-> s, user_waits |-> u, scope_index |-> i]
Here == Store(sessions, user_waits, scope_index)

\* results: SessionResult<T>; an error carries the fragments of its message
MRes(tag, msg, key, data, keys) == [tag |-> tag, msg |-> msg, key |-> key, data |-> data, keys |-> keys]
MUnit == MRes("Ok", <<>>, <<>>, <<>>, {})
MNone == MRes("None", <<>>, <<>>, <<>>, {})
MKey(k) == MRes("Ok", <<>>, <<k>>, <<>>, {})
MSomeKey(k) == MRes("Some", <<>>, <<k>>, <<>>, {})
MSomeData(d) == MRes("Some", <<>>, <<>>, <<d>>, {})
MSomePair(k, d) == MRes("Some", <<>>, <<k>>, <<d>>, {})
MList(ks) == MRes("Ok", <<>>, <<>>, <<>>, ks)
ctx_mismatch(reason) == MRes("InvalidInput", <<"tenant context mismatch", reason>>, <<>>, <<>>, {})
invalid_argument(msg) == MRes("InvalidInput", msg, <<>>, <<>>, {})
not_found(k) == MRes("NotFound", <<"session", k, "was not found">>, <<k>>, <<>>, {})

Outcome(st, res) == [st |-> st, res |-> res]

NoGhost == [changed |-> FALSE, n |-> 0, ekey |-> <<>>, edata |-> <<>>, made |-> {}, any |-> FALSE,
            lapsed |-> FALSE]
\* the arguments of a call, each one present or not
Args(ctx, user, scope, key, data, ttl) ==
    [ctx |-> ctx, user |-> user, scope |-> scope, key |-> key, data |-> data, ttl |-> ttl]
NoArgs == Args(<<>>, <<>>, <<>>, <<>>, <<>>, <<>>)
\* what a call found: did it leave the store as it was, was a session held under its
\* key, was the key never written or last removed, which key was its scope bound to,
\* which expired waits did it meet
NoFacts == [same |-> FALSE, held |-> FALSE, gone |-> FALSE, was |-> <<>>, lapsed |-> {}]
NoLast == [op |-> "none", res |-> MUnit, ghost |-> NoGhost, args |-> NoArgs, pre |-> NoFacts, at |-> 0]

Range(f) == {f[x] : x \in DOMAIN f}

\* the second caller: where it is in its call, the arguments, the scope entry or the
\* keys it has read, the keys it found available, the index removals it still has
\* to make, what it returned, and the sessions it got that were live inside its fence
NoFinder == [pc |-> "idle", op |-> "none", ctx |-> <<>>, user |-> <<>>, scope |-> <<>>, entry |-> <<>>,
             keys |-> {}, avail |-> {}, todo |-> <<>>, res |-> MUnit, live |-> {}]
NoBound == [lost |-> FALSE, who |-> <<>>, of |-> EmptyMap]
LostBound == [lost |-> TRUE, who |-> <<>>, of |-> EmptyMap]

MemInit ==
    /\ sessions = EmptyMap
    /\ user_waits = EmptyMap
    /\ scope_index = EmptyMap
    /\ mnow = 0
    /\ mlast = NoLast
    /\ bound = NoBound
    /\ written = [k \in SessionKeys |-> <<>>]
    /\ finder = NoFinder

(***************************************************************************)
(* Part II : private helpers of InMemorySessionStore                       *)
(***************************************************************************)
remove_from_user_waits(st, lookup, key) ==
    IF lookup \in DOMAIN st.user_waits
    THEN LET entries == st.user_waits[lookup] \ {key}
         IN [st EXCEPT !.user_waits = IF entries = {} THEN MapDel(@, lookup) ELSE MapPut(@, lookup, entries)]
    ELSE st

remove_scope_entry(st, scope_key) == [st EXCEPT !.scope_index = MapDel(@, scope_key)]

purge_expired_session(st, key, entry) ==
    LET a == IF entry.wait_user # <<>> THEN remove_from_user_waits(st, entry.wait_user[1], key) ELSE st
    IN IF entry.scope_key # <<>> THEN remove_scope_entry(a, entry.scope_key[1]) ELSE a

(***************************************************************************)
(* Part II : the SessionStore operations, as functions of the store        *)
(***************************************************************************)
create_session(st, ctx, data, key) ==
    IF ensure_alignment(ctx, data) # AlignOk THEN Outcome(st, ctx_mismatch(ensure_alignment(ctx, data)))
    ELSE Outcome([st EXCEPT !.sessions = MapPut(@, key, SessionEntry(data, <<>>, <<>>, <<>>))], MKey(key))

\* mutant: an expired session is dropped, the indices are left to later lookups
get_session_keep_index(st, key, now) ==
    IF key \notin DOMAIN st.sessions THEN Outcome(st, MNone)
    ELSE LET entry == st.sessions[key]
         IN IF is_expired(entry.expires_at, now)
            THEN Outcome([st EXCEPT !.sessions = MapDel(@, key)], MNone)
            ELSE Outcome(st, MSomeData(entry.data))

get_session(st, key, now) ==
    IF key \notin DOMAIN st.sessions THEN Outcome(st, MNone)
    ELSE LET entry == st.sessions[key]
         IN IF is_expired(entry.expires_at, now)
            THEN Outcome(purge_expired_session([st EXCEPT !.sessions = MapDel(@, key)], key, entry), MNone)
            ELSE Outcome(st, MSomeData(entry.data))

\* mutant: the context is checked and the payload stored before is kept
update_session_keep_data(st, key, data) ==
    IF key \notin DOMAIN st.sessions THEN Outcome(st, not_found(key))
    ELSE IF ensure_ctx_preserved(st.sessions[key].data.tenant_ctx, data.tenant_ctx) # AlignOk
    THEN Outcome(st, ctx_mismatch(ensure_ctx_preserved(st.sessions[key].data.tenant_ctx, data.tenant_ctx)))
    ELSE Outcome(st, MUnit)

\* mutant: the updated entry is written like a created one, without deadline
update_session_no_deadline(st, key, data) ==
    IF key \notin DOMAIN st.sessions THEN Outcome(st, not_found(key))
    ELSE LET previous == st.sessions[key]
             why == ensure_ctx_preserved(previous.data.tenant_ctx, data.tenant_ctx)
         IN IF why # AlignOk THEN Outcome(st, ctx_mismatch(why))
            ELSE Outcome([st EXCEPT !.sessions = MapPut(@, key,
                              SessionEntry(data, <<>>, previous.wait_user, previous.scope_key))],
                         MUnit)

update_session(st, key, data) ==
    IF key \notin DOMAIN st.sessions THEN Outcome(st, not_found(key))
    ELSE LET previous == st.sessions[key]
             why == ensure_ctx_preserved(previous.data.tenant_ctx, data.tenant_ctx)
         IN IF why # AlignOk THEN Outcome(st, ctx_mismatch(why))
            ELSE Outcome([st EXCEPT !.sessions = MapPut(@, key,
                              SessionEntry(data, previous.expires_at, previous.wait_user, previous.scope_key))],
                         MUnit)

\* mutant: the session is removed, the indices are left to later lookups
remove_session_keep_index(st, key) ==
    IF key \in DOMAIN st.sessions
    THEN Outcome([st EXCEPT !.sessions = MapDel(@, key)], MUnit)
    ELSE Outcome(st, not_found(key))

\* mutant: removing a key that holds no session is not an error
remove_session_silent(st, key) ==
    IF key \in DOMAIN st.sessions
    THEN Outcome(purge_expired_session([st EXCEPT !.sessions = MapDel(@, key)], key, st.sessions[key]), MUnit)
    ELSE Outcome(st, MUnit)

remove_session(st, key) ==
    IF key \in DOMAIN st.sessions
    THEN Outcome(purge_expired_session([st EXCEPT !.sessions = MapDel(@, key)], key, st.sessions[key]), MUnit)
    ELSE Outcome(st, not_found(key))

\* mutant: a user holds one wait at a time, a new wait drops the other scopes of the index
register_wait_store_one_scope(st, user_lookup, scope_key, session_key, data, expires_at) ==
    LET b == [st EXCEPT !.sessions = MapPut(@, session_key,
                            SessionEntry(data, expires_at, <<user_lookup>>, <<scope_key>>))]
        c == [b EXCEPT !.user_waits = MapPut(@, user_lookup,
                           (IF user_lookup \in DOMAIN b.user_waits THEN b.user_waits[user_lookup] ELSE {})
                               \cup {session_key})]
    IN [c EXCEPT !.scope_index = MapPut(EmptyMap, scope_key, ScopeEntry(session_key, expires_at))]

\* register_wait, after its three checks have passed
register_wait_store(st, user_lookup, scope_key, session_key, data, expires_at) ==
    LET a == IF session_key \in DOMAIN st.sessions
             THEN purge_expired_session(st, session_key, st.sessions[session_key])
             ELSE st
        b == [a EXCEPT !.sessions = MapPut(@, session_key,
                           SessionEntry(data, expires_at, <<user_lookup>>, <<scope_key>>))]
        c == [b EXCEPT !.user_waits = MapPut(@, user_lookup,
                           (IF user_lookup \in DOMAIN b.user_waits THEN b.user_waits[user_lookup] ELSE {})
                               \cup {session_key})]
        d == IF scope_key \in DOMAIN c.scope_index /\ c.scope_index[scope_key].session_key # session_key
             THEN remove_from_user_waits(c, user_lookup, c.scope_index[scope_key].session_key)
             ELSE c
    IN [d EXCEPT !.scope_index = MapPut(@, scope_key, ScopeEntry(session_key, expires_at))]

register_wait(st, ctx, user_id, scope, session_key, data, ttl, now) ==
    IF ensure_alignment(ctx, data) # AlignOk THEN Outcome(st, ctx_mismatch(ensure_alignment(ctx, data)))
    ELSE IF ensure_user_matches(ctx, user_id, data) # AlignOk
    THEN Outcome(st, invalid_argument(<<ensure_user_matches(ctx, user_id, data)>>))
    ELSE IF /\ session_key \in DOMAIN st.sessions
            /\ ensure_ctx_preserved(st.sessions[session_key].data.tenant_ctx, data.tenant_ctx) # AlignOk
    THEN Outcome(st, ctx_mismatch(ensure_ctx_preserved(st.sessions[session_key].data.tenant_ctx,
                                                       data.tenant_ctx)))
    ELSE Outcome(register_wait_store(st, UserLookupKey(ctx, user_id), ScopeLookupKey(ctx, user_id, scope),
                                     session_key, data, ttl_deadline(ttl, now)),
                 MUnit)

\* find_wait_by_scope dropping a stale scope entry and its user-index entry
drop_stale_wait(st, ctx, user_id, scope_key, session_key) ==
    remove_from_user_waits(remove_scope_entry(st, scope_key), UserLookupKey(ctx, user_id), session_key)

find_wait_by_scope(st, ctx, user_id, scope, now) ==
    LET scope_key == ScopeLookupKey(ctx, user_id, scope)
    IN IF scope_key \notin DOMAIN st.scope_index THEN Outcome(st, MNone)
       ELSE LET entry == st.scope_index[scope_key]
                got == get_session(st, entry.session_key, now)
            IN IF is_expired(entry.expires_at, now)
               THEN LET a == drop_stale_wait(st, ctx, user_id, scope_key, entry.session_key)
                    IN IF entry.session_key \in DOMAIN a.sessions
                       THEN Outcome(purge_expired_session(
                                        [a EXCEPT !.sessions = MapDel(@, entry.session_key)],
                                        entry.session_key, a.sessions[entry.session_key]),
                                    MNone)
                       ELSE Outcome(a, MNone)
               ELSE IF got.res.tag = "None"
               THEN Outcome(drop_stale_wait(got.st, ctx, user_id, scope_key, entry.session_key), MNone)
               ELSE IF FenceMismatch(got.res.data[1].tenant_ctx, ctx, user_id)
               THEN Outcome(drop_stale_wait(got.st, ctx, user_id, scope_key, entry.session_key), MNone)
               ELSE Outcome(got.st, MSomeKey(entry.session_key))

\* the loop of list_waits_for_user over the keys snapshot; the order in which a
\* HashSet is walked does not show in the set of keys returned
RECURSIVE list_waits_loop(_, _, _, _, _, _)
list_waits_loop(st, ctx, user_id, keys, available, now) ==
    IF keys = {} THEN Outcome(st, MList(available))
    ELSE LET key == CHOOSE k \in keys : TRUE
             got == get_session(st, key, now)
         IN IF got.res.tag = "None" \/ FenceMismatch(got.res.data[1].tenant_ctx, ctx, user_id)
            THEN list_waits_loop(remove_from_user_waits(got.st, UserLookupKey(ctx, user_id), key),
                                 ctx, user_id, keys \ {key}, available, now)
            ELSE list_waits_loop(got.st, ctx, user_id, keys \ {key}, available \cup {key}, now)

list_waits_for_user(st, ctx, user_id, now) ==
    LET lookup == UserLookupKey(ctx, user_id)
        keys == IF lookup \in DOMAIN st.user_waits THEN st.user_waits[lookup] ELSE {}
    IN list_waits_loop(st, ctx, user_id, keys, {}, now)

\* mutant: the wait is taken out of both indices, the session is kept
clear_wait_keep_session(st, ctx, user_id, scope) ==
    LET scope_key == ScopeLookupKey(ctx, user_id, scope)
    IN IF scope_key \in DOMAIN st.scope_index
       THEN Outcome(remove_from_user_waits(remove_scope_entry(st, scope_key), UserLookupKey(ctx, user_id),
                                           st.scope_index[scope_key].session_key),
                    MUnit)
       ELSE Outcome(st, MUnit)

clear_wait(st, ctx, user_id, scope) ==
    LET scope_key == ScopeLookupKey(ctx, user_id, scope)
    IN IF scope_key \in DOMAIN st.scope_index
       THEN LET entry == st.scope_index[scope_key]
                a == remove_from_user_waits(remove_scope_entry(st, scope_key),
                                            UserLookupKey(ctx, user_id), entry.session_key)
            IN Outcome([a EXCEPT !.sessions = MapDel(@, entry.session_key)], MUnit)
       ELSE Outcome(st, MUnit)

MultipleWaits == <<"multiple waits", "exist for user; use scope-based routing instead">>

\* mutant: with several waits the first one is returned
find_by_user_first(st, ctx, user, now, later) ==
    LET waits == list_waits_for_user(st, ctx, user, now)
    IN IF Cardinality(waits.res.keys) = 0 THEN Outcome(waits.st, MNone)
       ELSE LET key == CHOOSE k \in waits.res.keys : TRUE
                got == get_session(waits.st, key, later)
            IN IF got.res.tag = "None" THEN Outcome(got.st, not_found(key))
               ELSE Outcome(got.st, MSomePair(key, got.res.data[1]))

\* the clock is read while the waits are listed (now) and again by the final get_session (later)
find_by_user(st, ctx, user, now, later) ==
    LET waits == list_waits_for_user(st, ctx, user, now)
    IN IF Cardinality(waits.res.keys) = 0 THEN Outcome(waits.st, MNone)
       ELSE IF Cardinality(waits.res.keys) = 1
       THEN LET key == CHOOSE k \in waits.res.keys : TRUE
                got == get_session(waits.st, key, later)
            IN IF got.res.tag = "None" THEN Outcome(got.st, not_found(key))
               ELSE Outcome(got.st, MSomePair(key, got.res.data[1]))
       ELSE Outcome(waits.st, invalid_argument(MultipleWaits))

(***************************************************************************)
(* Part II : callers of the routing store                                  *)
(***************************************************************************)
BaseCtx == TenantCtx("dev", "ta", "team-a", Nil, "u1", Nil)

\* the base context, the same fence written in the legacy slots, and the
\* contexts that differ from it in one part of the fence
LegacyCtx == TenantCtx("dev", "ta", Nil, "team-a", Nil, "u1")
TeamBCtx == TenantCtx("dev", "ta", "team-b", Nil, "u1", Nil)
User2Ctx == TenantCtx("dev", "ta", "team-a", Nil, "u2", Nil)
NoUserCtx == TenantCtx("dev", "ta", "team-a", Nil, Nil, Nil)

\* the contexts callers present: to create, to register a wait, to look a wait up
MemCtxs == {BaseCtx, TeamBCtx, User2Ctx, NoUserCtx}
WaitCtxs == IF observe = "lapse" THEN {BaseCtx, User2Ctx} ELSE {BaseCtx, NoUserCtx}
FindCtxs == {BaseCtx, TeamBCtx}

\* the contexts session data may carry: a caller's, the base fence in the legacy
\* slots, or one of another env, tenant or of no team
DataCtxs ==
    MemCtxs \cup {LegacyCtx,
                  TenantCtx("prod", "ta", "team-a", Nil, "u1", Nil),
                  TenantCtx("dev", "tb", "team-a", Nil, "u1", Nil),
                  TenantCtx("dev", "ta", Nil, Nil, "u1", Nil)}

\* next to the lock-by-lock lookup the callers hand in data of two fences only; where
\* the frame of the calls is followed, two payloads of one fence and one of another user
MemData ==
    IF observe \in {"frame", "lapse"}
    THEN {SessionData(BaseCtx, 1), SessionData(BaseCtx, 2), SessionData(User2Ctx, 1)}
    ELSE {SessionData(c, 1) : c \in IF observe = "heal" THEN {BaseCtx, TeamBCtx} ELSE DataCtxs}

\* every context over the identifiers, both slots of team and user
AllCtxs ==
    {TenantCtx(e, t, ti, tl, ui, ul) :
        e \in Envs, t \in MTenants, ti \in Teams \cup {Nil}, tl \in Teams \cup {Nil},
        ui \in Users \cup {Nil}, ul \in Users \cup {Nil}}

\* what a session is fenced by
Fence(ctx) == <<ctx.env, ctx.tenant_id, normalize_team(ctx), normalize_user(ctx)>>
FenceFor(ctx, user) == <<ctx.env, ctx.tenant_id, normalize_team(ctx), user>>

\* the waits of (ctx, user) that are registered, not expired and inside the caller's fence
LiveWaits(st, ctx, user, now) ==
    {k \in (IF UserLookupKey(ctx, user) \in DOMAIN st.user_waits
            THEN st.user_waits[UserLookupKey(ctx, user)] ELSE {}) :
        /\ k \in DOMAIN st.sessions
        /\ ~is_expired(st.sessions[k].expires_at, now)
        /\ Fence(st.sessions[k].data.tenant_ctx) = FenceFor(ctx, user)}

\* the sessions inside the fence of (ctx, user), and those of them no wait was registered for
FencedSessions(st, ctx, user) ==
    {k \in DOMAIN st.sessions : Fence(st.sessions[k].data.tenant_ctx) = FenceFor(ctx, user)}
CreatedSessions(st, ctx, user) ==
    {k \in FencedSessions(st, ctx, user) : st.sessions[k].wait_user = <<>>}

\* next_key(): a fresh uuid, a key the store holds nowhere
FreshKeys ==
    SessionKeys \ (DOMAIN sessions
                   \cup UNION {user_waits[l] : l \in DOMAIN user_waits}
                   \cup {scope_index[x].session_key : x \in DOMAIN scope_index})

\* the calls whose outcome the history keeps: updates of a stored key (the kind
\* of outcome, not the message), or finds by user
Watched(op, key) ==
    \/ observe = "fence" /\ op \in {"update_session", "register_wait"} /\ key \in DOMAIN sessions
    \/ observe = "find" /\ op = "find_by_user"

\* the key the scope of a call is bound to in the scope index
BoundTo(st, args) ==
    IF args.scope = <<>> THEN <<>>
    ELSE LET scope_key == ScopeLookupKey(args.ctx[1], args.user[1], args.scope[1])
         IN IF scope_key \in DOMAIN st.scope_index THEN <<st.scope_index[scope_key].session_key>> ELSE <<>>

\* is key a session registered as a wait with a ttl that has elapsed
ExpiredWait(st, key, now) ==
    /\ key \in DOMAIN st.sessions
    /\ st.sessions[key].wait_user # <<>>
    /\ st.sessions[key].expires_at # <<>>
    /\ st.sessions[key].expires_at[1] <= now

\* the expired waits a call comes across: the key it gets, the key its scope
\* is bound to, or the members of the wait set it lists
ExpiredWaits(st, op, args, now) ==
    {k \in (IF op = "get_session" THEN {args.key[1]}
            ELSE IF op = "find_wait_by_scope"
            THEN {k \in DOMAIN st.sessions : BoundTo(st, args) = <<k>>}
            ELSE IF /\ op = "list_waits_for_user"
                    /\ UserLookupKey(args.ctx[1], args.user[1]) \in DOMAIN st.user_waits
            THEN st.user_waits[UserLookupKey(args.ctx[1], args.user[1])]
            ELSE {}) : ExpiredWait(st, k, now)}

\* the calls the history keeps with their arguments, what they found and the time:
\* the lookups of the (ctx, user) whose waits are followed, the calls that replace or
\* clear a wait, the reads that meet an expired wait or return keys, the session
\* operations other than the updates of a stored key; the arguments of a clear_wait
\* that found no wait are not kept
Recorded(op, args, out) ==
    \/ /\ observe = "route"
       /\ op \in {"find_wait_by_scope", "list_waits_for_user"}
       /\ bound.who = <<args.ctx[1], args.user[1]>>
    \/ /\ observe = "replace"
       /\ \/ op = "clear_wait"
          \/ op = "register_wait" /\ out.res.tag = "Ok" /\ BoundTo(Here, args) \notin {<<>>, args.key}
    \/ /\ observe = "expiry"
       /\ op \in {"get_session", "find_wait_by_scope", "list_waits_for_user"}
       /\ \/ ExpiredWaits(Here, op, args, mnow) # {}
          \/ out.res.key # <<>>
          \/ out.res.keys # {}
    \/ /\ observe = "data"
       /\ \/ op \in {"get_session", "remove_session"}
          \/ op = "update_session" /\ args.key[1] \notin DOMAIN sessions

Facts(op, args, out) ==
    [same |-> observe \in {"replace", "data"} /\ out.st = Here,
     held |-> observe = "data" /\ args.key[1] \in DOMAIN sessions,
     gone |-> observe = "data" /\ args.key[1] \in DOMAIN written /\ written[args.key[1]] = <<>>,
     was |-> IF observe = "replace" THEN BoundTo(Here, args) ELSE <<>>,
     lapsed |-> IF observe = "expiry" THEN ExpiredWaits(Here, op, args, mnow) ELSE {}]

\* history of the waits registered one after the other for one (ctx, user) without ttl,
\* each for a scope and a key not used before; lost once a wait is replaced, given
\* a ttl, cleared or its session removed
NextBound(op, args, out) ==
    IF observe # "route" THEN bound
    ELSE IF op = "register_wait" /\ out.res.tag = "Ok"
    THEN IF /\ ~bound.lost
            /\ args.ttl = <<>>
            /\ bound.who \in {<<>>, <<args.ctx[1], args.user[1]>>}
            /\ args.scope[1] \notin DOMAIN bound.of
            /\ args.key[1] \notin Range(bound.of)
         THEN [lost |-> FALSE, who |-> <<args.ctx[1], args.user[1]>>,
               of |-> MapPut(bound.of, args.scope[1], args.key[1])]
         ELSE LostBound
    ELSE IF op \in {"remove_session", "clear_wait"} /\ out.st # Here
    THEN LostBound
    ELSE bound

\* history of the payload stored under each key: written by a successful
\* create_session, register_wait without ttl or update_session, emptied by a
\* successful remove_session; a key is not followed while its session can expire
\* or after clear_wait took it away
NextStored(op, args, out) ==
    IF observe # "data" THEN written
    ELSE IF op = "create_session" /\ out.res.tag = "Ok" THEN MapPut(written, args.key[1], args.data)
    ELSE IF op = "register_wait" /\ out.res.tag = "Ok"
    THEN IF args.ttl = <<>> THEN MapPut(written, args.key[1], args.data) ELSE MapDel(written, args.key[1])
    ELSE IF op = "update_session" /\ out.res.tag = "Ok" /\ args.key[1] \in DOMAIN written
    THEN MapPut(written, args.key[1], args.data)
    ELSE IF op = "remove_session" /\ out.res.tag = "Ok" THEN MapPut(written, args.key[1], <<>>)
    ELSE IF op = "clear_wait"
    THEN [k \in DOMAIN written \ (DOMAIN sessions \ DOMAIN out.st.sessions) |-> written[k]]
    ELSE written

\* the scope-index entries a call took away or bound to another key
Unbound(out) ==
    {x \in DOMAIN scope_index :
        x \notin DOMAIN out.st.scope_index \/ out.st.scope_index[x].session_key # scope_index[x].session_key}

\* is the call a write to a key whose session is past its deadline
MeetsExpired(op, args) ==
    /\ op \in {"update_session", "remove_session", "register_wait"}
    /\ args.key[1] \in DOMAIN sessions
    /\ is_expired(sessions[args.key[1]].expires_at, mnow)

\* the calls kept where the frame of the calls is followed (those that unbind a scope
\* and the successful updates) or the writes to expired sessions are (those writes);
\* kept are the operation, the key it was handed, the scope-index key its scope stands
\* for and the kind of result, and of a register_wait for an expired session the other
\* arguments
Framed(op, args, out) ==
    IF ~ \/ observe = "frame" /\ Unbound(out) # {}
         \/ observe = "frame" /\ op = "update_session" /\ out.res.tag = "Ok"
         \/ observe = "lapse" /\ MeetsExpired(op, args)
    THEN NoLast
    ELSE
    [NoLast EXCEPT !.op = op,
                   !.res = MRes(out.res.tag, <<>>, <<>>, <<>>, {}),
                   !.args = [(IF op = "register_wait" /\ MeetsExpired(op, args) THEN args ELSE NoArgs) EXCEPT
                                !.key = IF op \in {"get_session", "update_session", "remove_session",
                                                   "register_wait"}
                                        THEN args.key ELSE <<>>,
                                !.scope = IF args.scope = <<>> THEN <<>>
                                          ELSE <<ScopeLookupKey(args.ctx[1], args.user[1], args.scope[1])>>]]

MemDone(out, op, args, ghost) ==
    /\ sessions' = out.st.sessions
    /\ user_waits' = out.st.user_waits
    /\ scope_index' = out.st.scope_index
    /\ mlast' = IF Watched(op, args.key[1])
                THEN [op |-> op,
                      res |-> IF observe = "fence" THEN [out.res EXCEPT !.msg = <<>>] ELSE out.res,
                      ghost |-> ghost, args |-> NoArgs, pre |-> NoFacts, at |-> 0]
                ELSE IF observe \in {"frame", "lapse"} THEN Framed(op, args, out)
                ELSE IF Recorded(op, args, out)
                THEN [op |-> op, res |-> out.res, ghost |-> NoGhost,
                      args |-> IF op = "clear_wait" /\ BoundTo(Here, args) = <<>> THEN NoArgs
                               ELSE [args EXCEPT !.data = <<>>],
                      pre |-> Facts(op, args, out),
                      at |-> IF op = "register_wait" THEN mnow ELSE 0]
                ELSE NoLast
    /\ bound' = NextBound(op, args, out)
    /\ written' = NextStored(op, args, out)
    /\ UNCHANGED <<finder, in_ctx, in_data, in_pc, casVars, extVars>>

\* does the data handed to an update of an existing key move the key's fence
Changes(key, data) ==
    key \in DOMAIN sessions /\ Fence(sessions[key].data.tenant_ctx) # Fence(data.tenant_ctx)

CreateSession ==
    \E ctx \in MemCtxs, data \in MemData :
        \E key \in (IF ensure_alignment(ctx, data) = AlignOk THEN FreshKeys ELSE {"sk1"}) :
            /\ MemDone(create_session(Here, ctx, data, key), "create_session",
                       Args(<<ctx>>, <<>>, <<>>, <<key>>, <<data>>, <<>>), NoGhost)
            /\ mnow' = mnow

GetSession ==
    \E key \in SessionKeys :
        /\ MemDone(get_session(Here, key, mnow), "get_session",
                   Args(<<>>, <<>>, <<>>, <<key>>, <<>>, <<>>), NoGhost)
        /\ mnow' = mnow

UpdateSession ==
    \E key \in SessionKeys, data \in MemData :
        /\ MemDone(update_session(Here, key, data), "update_session",
                   Args(<<>>, <<>>, <<>>, <<key>>, <<data>>, <<>>),
                   [NoGhost EXCEPT !.changed = Changes(key, data)])
        /\ mnow' = mnow

RemoveSession ==
    \E key \in SessionKeys :
        /\ MemDone(remove_session(Here, key), "remove_session",
                   Args(<<>>, <<>>, <<>>, <<key>>, <<>>, <<>>), NoGhost)
        /\ mnow' = mnow

\* do the three checks of register_wait pass
RegisterAccepted(ctx, user_id, session_key, data) ==
    /\ ensure_alignment(ctx, data) = AlignOk
    /\ ensure_user_matches(ctx, user_id, data) = AlignOk
    /\ session_key \in DOMAIN sessions
          => ensure_ctx_preserved(sessions[session_key].data.tenant_ctx, data.tenant_ctx) = AlignOk

\* the scope and the ttl of a call are drawn only where the call gets far enough to read them
RegisterWait ==
    \E ctx \in WaitCtxs, user_id \in Users, session_key \in SessionKeys, data \in MemData :
        \E scope \in (IF RegisterAccepted(ctx, user_id, session_key, data) THEN Scopes ELSE {"s1"}),
           ttl \in (IF RegisterAccepted(ctx, user_id, session_key, data) THEN WaitTtls ELSE {<<>>}) :
            /\ MemDone(register_wait(Here, ctx, user_id, scope, session_key, data, ttl, mnow),
                       "register_wait",
                       Args(<<ctx>>, <<user_id>>, <<scope>>, <<session_key>>, <<data>>, ttl),
                       [NoGhost EXCEPT !.changed = Changes(session_key, data)])
            /\ mnow' = mnow

FindWaitByScope ==
    \E ctx \in FindCtxs, user_id \in Users, scope \in Scopes :
        /\ MemDone(find_wait_by_scope(Here, ctx, user_id, scope, mnow), "find_wait_by_scope",
                   Args(<<ctx>>, <<user_id>>, <<scope>>, <<"sk1">>, <<>>, <<>>), NoGhost)
        /\ mnow' = mnow

ListWaitsForUser ==
    \E ctx \in FindCtxs, user_id \in Users :
        /\ MemDone(list_waits_for_user(Here, ctx, user_id, mnow), "list_waits_for_user",
                   Args(<<ctx>>, <<user_id>>, <<>>, <<"sk1">>, <<>>, <<>>), NoGhost)
        /\ mnow' = mnow

ClearWait ==
    \E ctx \in FindCtxs, user_id \in Users, scope \in Scopes :
        /\ MemDone(clear_wait(Here, ctx, user_id, scope), "clear_wait",
                   Args(<<ctx>>, <<user_id>>, <<scope>>, <<"sk1">>, <<>>, <<>>), NoGhost)
        /\ mnow' = mnow

\* the clock may tick between the listing of the waits and the final get_session
FindByUser ==
    \E ctx \in FindCtxs, user \in Users, later \in {mnow, mnow + 1} :
        /\ later <= MaxTime
        /\ mnow' = later
        /\ LET live == LiveWaits(Here, ctx, user, mnow)
               one == CHOOSE k \in live : TRUE
           IN MemDone(find_by_user(Here, ctx, user, mnow, later), "find_by_user",
                      Args(<<ctx>>, <<user>>, <<>>, <<"sk1">>, <<>>, <<>>),
                      [changed |-> FALSE,
                       n |-> Cardinality(live),
                       ekey |-> IF Cardinality(live) = 1 THEN <<one>> ELSE <<>>,
                       edata |-> IF Cardinality(live) = 1 THEN <<sessions[one].data>> ELSE <<>>,
                       made |-> {<<k, sessions[k].data>> : k \in CreatedSessions(Here, ctx, user)},
                       any |-> FencedSessions(Here, ctx, user) # {},
                       lapsed |-> LiveWaits(Here, ctx, user, later) # live])

MemTick ==
    /\ mnow < MaxTime
    /\ mnow' = mnow + 1
    /\ UNCHANGED <<sessions, user_waits, scope_index, mlast, bound, written, finder, in_ctx, in_data, in_pc,
                   casVars, extVars>>

NextMem ==
    \/ CreateSession
    \/ GetSession
    \/ UpdateSession
    \/ RemoveSession
    \/ RegisterWait
    \/ FindWaitByScope
    \/ ListWaitsForUser
    \/ ClearWait
    \/ FindByUser
    \/ MemTick

(***************************************************************************)
(* Part II : a lookup running next to other callers, one lock at a time    *)
(***************************************************************************)
\* the sessions that exist unexpired at this instant inside the fence of (ctx, user)
LiveFenced(st, ctx, user, now) ==
    {k \in DOMAIN st.sessions :
        /\ ~(st.sessions[k].expires_at # <<>> /\ st.sessions[k].expires_at[1] <= now)
        /\ st.sessions[k].data.tenant_ctx.env = ctx.env
        /\ st.sessions[k].data.tenant_ctx.tenant_id = ctx.tenant_id
        /\ normalize_team(st.sessions[k].data.tenant_ctx) = normalize_team(ctx)
        /\ normalize_user(st.sessions[k].data.tenant_ctx) \in {Nil, user}}

\* index removals still to make, each under its own lock: <<map, index key, session key>>
PurgeSteps(key, entry) ==
    (IF entry.wait_user # <<>> THEN << <<"user", entry.wait_user[1], key>> >> ELSE <<>>)
        \o (IF entry.scope_key # <<>> THEN << <<"scope", entry.scope_key[1], key>> >> ELSE <<>>)
DropSteps(ctx, user_id, scope, key) ==
    << <<"scope", ScopeLookupKey(ctx, user_id, scope), key>>, <<"user", UserLookupKey(ctx, user_id), key>> >>

\* get_session while it holds the sessions write lock; the purge of an expired
\* entry follows after the lock is dropped
GetLocked(st, key, now) ==
    IF key \notin DOMAIN st.sessions THEN [sessions |-> st.sessions, data |-> <<>>, todo |-> <<>>]
    ELSE IF is_expired(st.sessions[key].expires_at, now)
    THEN [sessions |-> MapDel(st.sessions, key), data |-> <<>>, todo |-> PurgeSteps(key, st.sessions[key])]
    ELSE [sessions |-> st.sessions, data |-> <<st.sessions[key].data>>, todo |-> <<>>]

\* the sessions the caller has seen so far, with the one it is getting now if that
\* one exists unexpired inside the caller's fence at this instant
Seen(key) == finder.live \cup ({key} \cap LiveFenced(Here, finder.ctx[1], finder.user[1], mnow))

\* the call returns; a result that names no key leaves nothing to remember
Return(f, res) ==
    IF res.key = <<>> /\ res.keys = {} THEN NoFinder
    ELSE [NoFinder EXCEPT !.op = f.op, !.ctx = f.ctx, !.user = f.user, !.res = res, !.live = f.live]

\* after the removals in todo: more removals, the next key of the list, or the return
Onward(f, todo) ==
    IF todo # <<>> THEN [f EXCEPT !.pc = "prune", !.todo = todo]
    ELSE IF f.op = "list_waits_for_user" /\ f.keys # {} THEN [f EXCEPT !.pc = "list_loop", !.todo = <<>>]
    ELSE IF f.op = "list_waits_for_user" THEN Return(f, MList(f.avail))
    ELSE Return(f, MNone)

FinderKeeps == UNCHANGED <<mnow, mlast, bound, written, in_ctx, in_data, in_pc, casVars, extVars>>

\* find_wait_by_scope: the scope entry is read under the scope_index read lock
FindBegin ==
    \E ctx \in FindCtxs, user_id \in Users, scope \in Scopes :
        /\ finder.pc = "idle"
        /\ finder' = IF ScopeLookupKey(ctx, user_id, scope) \in DOMAIN scope_index
                      THEN [NoFinder EXCEPT !.pc = "find_entry", !.op = "find_wait_by_scope",
                                            !.ctx = <<ctx>>, !.user = <<user_id>>, !.scope = <<scope>>,
                                            !.entry = <<scope_index[ScopeLookupKey(ctx, user_id, scope)]>>]
                      ELSE NoFinder
        /\ UNCHANGED <<sessions, user_waits, scope_index>>
        /\ FinderKeeps

\* is_expired(entry.expires_at): an expired scope entry is removed with the wait-set
\* member and the session
FindCheck ==
    /\ finder.pc = "find_entry"
    /\ finder' = IF is_expired(finder.entry[1].expires_at, mnow)
                  THEN [finder EXCEPT !.pc = "prune",
                                      !.todo = DropSteps(finder.ctx[1], finder.user[1], finder.scope[1],
                                                         finder.entry[1].session_key)
                                                   \o << <<"sess", finder.entry[1].session_key,
                                                           finder.entry[1].session_key>> >>]
                  ELSE [finder EXCEPT !.pc = "find_get"]
    /\ UNCHANGED <<sessions, user_waits, scope_index>>
    /\ FinderKeeps

\* self.get_session(&entry.session_key) and the comparison of what it returned
FindGet ==
    /\ finder.pc = "find_get"
    /\ LET key == finder.entry[1].session_key
           got == GetLocked(Here, key, mnow)
           drop == DropSteps(finder.ctx[1], finder.user[1], finder.scope[1], key)
       IN /\ sessions' = got.sessions
          /\ finder' = IF got.data = <<>> THEN Onward(finder, got.todo \o drop)
                        ELSE IF FenceMismatch(got.data[1].tenant_ctx, finder.ctx[1], finder.user[1])
                        THEN Onward(finder, drop)
                        ELSE Return([finder EXCEPT !.live = Seen(key)], MSomeKey(key))
    /\ UNCHANGED <<user_waits, scope_index>>
    /\ FinderKeeps

\* list_waits_for_user: the wait set is copied under the user_waits read lock
ListBegin ==
    \E ctx \in FindCtxs, user_id \in Users :
        /\ finder.pc = "idle"
        /\ finder' = IF UserLookupKey(ctx, user_id) \in DOMAIN user_waits
                      THEN [NoFinder EXCEPT !.pc = "list_loop", !.op = "list_waits_for_user",
                                            !.ctx = <<ctx>>, !.user = <<user_id>>,
                                            !.keys = user_waits[UserLookupKey(ctx, user_id)]]
                      ELSE NoFinder
        /\ UNCHANGED <<sessions, user_waits, scope_index>>
        /\ FinderKeeps

\* one turn of the loop: self.get_session(&key) and the comparison of what it returned
ListGet ==
    \E key \in finder.keys :
        /\ finder.pc = "list_loop"
        /\ LET got == GetLocked(Here, key, mnow)
               rest == [finder EXCEPT !.keys = @ \ {key}, !.live = Seen(key)]
               drop == << <<"user", UserLookupKey(finder.ctx[1], finder.user[1]), key>> >>
           IN /\ sessions' = got.sessions
              /\ finder' = IF got.data = <<>> THEN Onward(rest, got.todo \o drop)
                            ELSE IF FenceMismatch(got.data[1].tenant_ctx, finder.ctx[1], finder.user[1])
                            THEN Onward(rest, drop)
                            ELSE Onward([rest EXCEPT !.avail = @ \cup {key}], <<>>)
        /\ UNCHANGED <<user_waits, scope_index>>
        /\ FinderKeeps

\* the next removal: remove_scope_entry, remove_from_user_waits, or
\* sessions.write().remove followed by the purge of what was removed
FinderPrune ==
    /\ finder.pc = "prune"
    /\ LET step == Head(finder.todo)
           more == IF step[1] = "sess" /\ step[3] \in DOMAIN sessions
                   THEN PurgeSteps(step[3], sessions[step[3]]) ELSE <<>>
       IN /\ sessions' = IF step[1] = "sess" THEN MapDel(sessions, step[3]) ELSE sessions
          /\ scope_index' = IF step[1] = "scope" THEN MapDel(scope_index, step[2]) ELSE scope_index
          /\ user_waits' = IF step[1] = "user"
                            THEN remove_from_user_waits(Here, step[2], step[3]).user_waits
                            ELSE user_waits
          /\ finder' = Onward(finder, more \o Tail(finder.todo))
    /\ FinderKeeps

\* callers of the store, each call atomic, next to the second caller's lookup
NextHeal ==
    \/ NextMem
    \/ FindBegin
    \/ FindCheck
    \/ FindGet
    \/ ListBegin
    \/ ListGet
    \/ FinderPrune

\* create_session on an empty store, for every pair of a caller context and session data
AlignOff ==
    /\ in_pc = "off"
    /\ in_ctx = BaseCtx
    /\ in_data = SessionData(BaseCtx, 1)

AlignInit ==
    /\ in_pc = "start"
    /\ in_ctx \in AllCtxs
    /\ in_data \in {SessionData(c, 1) : c \in AllCtxs}

AlignCreate ==
    /\ in_pc = "start"
    /\ in_pc' = "done"
    /\ LET out == create_session(Here, in_ctx, in_data, "sk1")
       IN /\ sessions' = out.st.sessions
          /\ user_waits' = out.st.user_waits
          /\ scope_index' = out.st.scope_index
          /\ mlast' = [NoLast EXCEPT !.op = "create_session", !.res = out.res]
    /\ UNCHANGED <<mnow, bound, written, finder, in_ctx, in_data, casVars, extVars>>

\* register_wait on an empty store, for every pair of a caller context and session
\* data and every user
AlignRegister ==
    /\ in_pc = "start"
    /\ in_pc' = "waited"
    /\ \E user_id \in Users :
           LET out == register_wait(Here, in_ctx, user_id, "s1", "sk1", in_data, <<>>, mnow)
           IN /\ sessions' = out.st.sessions
              /\ user_waits' = out.st.user_waits
              /\ scope_index' = out.st.scope_index
              /\ mlast' = [NoLast EXCEPT !.op = "register_wait", !.res = out.res,
                                         !.args = Args(<<>>, <<user_id>>, <<>>, <<>>, <<>>, <<>>)]
    /\ UNCHANGED <<mnow, bound, written, finder, in_ctx, in_data, casVars, extVars>>

NextAlign ==
    \/ AlignCreate
    \/ AlignRegister

(***************************************************************************)
(* Part III : the Redis routing store (src/src/backends/redis.rs)          *)
(***************************************************************************)
\* the keyspace, one map per kind of key: session_entry_key -> payload with its
\* deadline, user_waits_key -> set of session keys, scope_wait_key -> session key
\* with its deadline
RStore(e, w, i) == [entries |-> e, waits |-> w, scopes |-> i]
EmptyRedis == RStore(EmptyMap, EmptyMap, EmptyMap)

\* the key formats; the namespace is one per store and "-" stands for no team
session_entry_key(key) == <<"session", key>>
user_waits_key(ctx, user) == <<"waits:user", ctx.env, ctx.tenant_id, normalize_team(ctx), user>>
scope_wait_key(ctx, user, scope) ==
    <<"waits:scope", ctx.env, ctx.tenant_id, normalize_team(ctx), user, scope_hash(scope)>>

\* the commands used, on the map of their kind of key
GET(m, k) == IF k \in DOMAIN m THEN <<m[k].val>> ELSE <<>>
SET(m, k, v) == MapPut(m, k, [val |-> v, exp |-> <<>>])
DEL(m, k) == MapDel(m, k)
PEXPIRE(m, k, deadline) == IF k \in DOMAIN m THEN [m EXCEPT ![k].exp = <<deadline>>] ELSE m
SMEMBERS(w, k) == IF k \in DOMAIN w THEN w[k] ELSE {}
SADD(w, k, member) == MapPut(w, k, SMEMBERS(w, k) \cup {member})
SREM(w, k, member) == IF SMEMBERS(w, k) \ {member} = {} THEN MapDel(w, k) ELSE MapPut(w, k, w[k] \ {member})

\* the server drops a key whose deadline is reached
Expire(r, now) ==
    [r EXCEPT !.entries = [k \in {x \in DOMAIN @ : @[x].exp = <<>> \/ @[x].exp[1] > now} |-> @[k]],
              !.scopes = [k \in {x \in DOMAIN @ : @[x].exp = <<>> \/ @[x].exp[1] > now} |-> @[k]]]

\* serde_json of a SessionData, and back
serialize(data) == <<"json", data.tenant_ctx, data.context_json>>
deserialize(payload) == SessionData(payload[2], payload[3])

\* apply_ttl: PEXPIRE when a ttl is given
apply_ttl(m, key, ttl, now) == IF ttl # <<>> THEN PEXPIRE(m, key, now + ttl[1]) ELSE m

\* ensure_alignment, ensure_ctx_preserved and ensure_user_matches of this store are
\* the ones of the in-memory store, line by line

redis_create_session(r, ctx, data, key) ==
    IF ensure_alignment(ctx, data) # AlignOk THEN Outcome(r, ctx_mismatch(ensure_alignment(ctx, data)))
    ELSE Outcome([r EXCEPT !.entries = SET(@, session_entry_key(key), serialize(data))], MKey(key))

redis_get_session(r, key) ==
    LET payload == GET(r.entries, session_entry_key(key))
    IN IF payload = <<>> THEN Outcome(r, MNone) ELSE Outcome(r, MSomeData(deserialize(payload[1])))

redis_update_session(r, key, data) ==
    LET existing == GET(r.entries, session_entry_key(key))
    IN IF existing = <<>> THEN Outcome(r, not_found(key))
       ELSE LET why == ensure_ctx_preserved(deserialize(existing[1]).tenant_ctx, data.tenant_ctx)
            IN IF why # AlignOk THEN Outcome(r, ctx_mismatch(why))
               ELSE Outcome([r EXCEPT !.entries = SET(@, session_entry_key(key), serialize(data))], MUnit)

redis_remove_session(r, key) ==
    LET existing == GET(r.entries, session_entry_key(key))
    IN IF existing = <<>> THEN Outcome(r, not_found(key))
       ELSE LET data == deserialize(existing[1])
                a == [r EXCEPT !.entries = DEL(@, session_entry_key(key))]
            IN IF normalize_user(data.tenant_ctx) # Nil
               THEN Outcome([a EXCEPT !.waits = SREM(@, user_waits_key(data.tenant_ctx,
                                                                       normalize_user(data.tenant_ctx)), key)],
                            MUnit)
               ELSE Outcome(a, MUnit)

redis_register_wait(r, ctx, user_id, scope, session_key, data, ttl, now) ==
    IF ensure_alignment(ctx, data) # AlignOk THEN Outcome(r, ctx_mismatch(ensure_alignment(ctx, data)))
    ELSE IF ensure_user_matches(ctx, user_id, data) # AlignOk
    THEN Outcome(r, invalid_argument(<<ensure_user_matches(ctx, user_id, data)>>))
    ELSE LET entry_key == session_entry_key(session_key)
             waits_key == user_waits_key(ctx, user_id)
             scope_key == scope_wait_key(ctx, user_id, scope)
             previous == GET(r.scopes, scope_key)
             a == [r EXCEPT !.entries = apply_ttl(SET(@, entry_key, serialize(data)), entry_key, ttl, now)]
             b == [a EXCEPT !.waits = SADD(@, waits_key, session_key)]
             c == [b EXCEPT !.scopes = apply_ttl(SET(@, scope_key, session_key), scope_key, ttl, now)]
         IN IF previous # <<>> /\ previous[1] # session_key
            THEN Outcome([c EXCEPT !.waits = SREM(@, waits_key, previous[1])], MUnit)
            ELSE Outcome(c, MUnit)

\* DEL scope key, SREM the key from the caller's wait set
redis_drop_wait(r, ctx, user_id, scope_key, session_key) ==
    [r EXCEPT !.scopes = DEL(@, scope_key),
              !.waits = SREM(@, user_waits_key(ctx, user_id), session_key)]

\* mutant: a scope entry whose session is gone is left in place
redis_find_wait_by_scope_keep_missing(r, ctx, user_id, scope) ==
    LET scope_key == scope_wait_key(ctx, user_id, scope)
        stored == GET(r.scopes, scope_key)
    IN IF stored = <<>> THEN Outcome(r, MNone)
       ELSE LET got == redis_get_session(r, stored[1])
            IN IF got.res.tag = "None" THEN Outcome(r, MNone)
               ELSE IF FenceMismatch(got.res.data[1].tenant_ctx, ctx, user_id)
               THEN Outcome(redis_drop_wait(r, ctx, user_id, scope_key, stored[1]), MNone)
               ELSE Outcome(r, MSomeKey(stored[1]))

\* the three branches that prune compare what FenceMismatch compares: env, tenant,
\* normalized team, and the stored user when there is one
redis_find_wait_by_scope(r, ctx, user_id, scope) ==
    LET scope_key == scope_wait_key(ctx, user_id, scope)
        stored == GET(r.scopes, scope_key)
    IN IF stored = <<>> THEN Outcome(r, MNone)
       ELSE LET got == redis_get_session(r, stored[1])
            IN IF got.res.tag = "None"
               THEN Outcome(redis_drop_wait(r, ctx, user_id, scope_key, stored[1]), MNone)
               ELSE IF FenceMismatch(got.res.data[1].tenant_ctx, ctx, user_id)
               THEN Outcome(redis_drop_wait(r, ctx, user_id, scope_key, stored[1]), MNone)
               ELSE Outcome(r, MSomeKey(stored[1]))

\* the loop over the members read by SMEMBERS; the order of the Vec returned is the
\* order Redis lists the set in and is compared as a set
RECURSIVE redis_list_waits_loop(_, _, _, _, _)
redis_list_waits_loop(r, ctx, user_id, stored, results) ==
    IF stored = {} THEN Outcome(r, MList(results))
    ELSE LET raw_key == CHOOSE k \in stored : TRUE
             got == redis_get_session(r, raw_key)
         IN IF got.res.tag = "None" \/ FenceMismatch(got.res.data[1].tenant_ctx, ctx, user_id)
            THEN redis_list_waits_loop([r EXCEPT !.waits = SREM(@, user_waits_key(ctx, user_id), raw_key)],
                                       ctx, user_id, stored \ {raw_key}, results)
            ELSE redis_list_waits_loop(r, ctx, user_id, stored \ {raw_key}, results \cup {raw_key})

redis_list_waits_for_user(r, ctx, user_id) ==
    redis_list_waits_loop(r, ctx, user_id, SMEMBERS(r.waits, user_waits_key(ctx, user_id)), {})

redis_clear_wait(r, ctx, user_id, scope) ==
    LET scope_key == scope_wait_key(ctx, user_id, scope)
        stored == GET(r.scopes, scope_key)
    IN IF stored = <<>> THEN Outcome(r, MUnit)
       ELSE Outcome([r EXCEPT !.entries = DEL(@, session_entry_key(stored[1])),
                              !.scopes = DEL(@, scope_key),
                              !.waits = SREM(@, user_waits_key(ctx, user_id), stored[1])],
                    MUnit)

redis_find_by_user(r, ctx, user) ==
    LET waits == redis_list_waits_for_user(r, ctx, user)
    IN IF Cardinality(waits.res.keys) = 0 THEN Outcome(waits.st, MNone)
       ELSE IF Cardinality(waits.res.keys) = 1
       THEN LET key == CHOOSE k \in waits.res.keys : TRUE
                got == redis_get_session(waits.st, key)
            IN IF got.res.tag = "None" THEN Outcome(got.st, not_found(key))
               ELSE Outcome(got.st, MSomePair(key, got.res.data[1]))
       ELSE Outcome(waits.st, invalid_argument(MultipleWaits))

(***************************************************************************)
(* Part III : the two routing stores driven by the same calls              *)
(***************************************************************************)
\* the callers, and the contexts the data they hand in may carry: the caller's
\* own or another team's
TwinCtxs == {BaseCtx, TeamBCtx}
TwinUsers == {"u1"}
TwinData == {SessionData(c, 1) : c \in {BaseCtx, TeamBCtx}}
\* which store the calls go to: both, call by call ("twin"), the in-memory one
\* ("prune_mem"), or the Redis one ("prune_redis", "wall", "lease")
RunsMem == observe \in {"twin", "prune_mem"}
RunsRedis == observe \in {"twin", "prune_redis", "wall", "lease"}
\* the stores are compared on calls without ttl
TwinTtls == IF observe = "twin" THEN {<<>>} ELSE WaitTtls

\* a generated key is one neither store holds anywhere
TwinFreshKeys ==
    {k \in FreshKeys :
        /\ session_entry_key(k) \notin DOMAIN rstore.entries
        /\ \A w \in DOMAIN rstore.waits : k \notin rstore.waits[w]
        /\ \A x \in DOMAIN rstore.scopes : rstore.scopes[x].val # k}

\* does a stored context differ from the caller's in env, tenant, normalized team or user
CtxDiffers(stored_ctx, ctx, user) ==
    \/ stored_ctx.env # ctx.env
    \/ stored_ctx.tenant_id # ctx.tenant_id
    \/ normalize_team(stored_ctx) # normalize_team(ctx)
    \/ normalize_user(stored_ctx) # user

\* the sessions of the Redis store that differ from the context of a call and are
\* deleted or overwritten by it
Hurt(r, after, ctx) ==
    {k \in DOMAIN r.entries :
        /\ CtxDiffers(deserialize(r.entries[k].val).tenant_ctx, ctx, normalize_user(ctx))
        /\ (k \notin DOMAIN after.entries \/ after.entries[k].val # r.entries[k].val)}

\* does a call name the key of a Redis session that differs from its context
Foreign(r, ctx, key) ==
    /\ session_entry_key(key) \in DOMAIN r.entries
    /\ CtxDiffers(deserialize(r.entries[session_entry_key(key)].val).tenant_ctx, ctx, normalize_user(ctx))

\* the key a scope is bound to, in each store
WasMem(st, ctx, user, scope) ==
    IF ScopeLookupKey(ctx, user, scope) \in DOMAIN st.scope_index
    THEN <<st.scope_index[ScopeLookupKey(ctx, user, scope)].session_key>> ELSE <<>>
WasRedis(r, ctx, user, scope) == GET(r.scopes, scope_wait_key(ctx, user, scope))

\* is the scope bound to a session that is missing, expired or differs from the caller
StaleMem(st, ctx, user, scope, now) ==
    /\ WasMem(st, ctx, user, scope) # <<>>
    /\ LET key == WasMem(st, ctx, user, scope)[1]
       IN \/ key \notin DOMAIN st.sessions
          \/ is_expired(st.sessions[key].expires_at, now)
          \/ CtxDiffers(st.sessions[key].data.tenant_ctx, ctx, user)
StaleRedis(r, ctx, user, scope) ==
    /\ WasRedis(r, ctx, user, scope) # <<>>
    /\ LET payload == GET(r.entries, session_entry_key(WasRedis(r, ctx, user, scope)[1]))
       IN payload = <<>> \/ CtxDiffers(deserialize(payload[1]).tenant_ctx, ctx, user)

\* the history of the last call: what both stores returned and what it met, and
\* for each key last registered with a ttl the time the ttl ends at
NoTwin == [op |-> "none", args |-> NoArgs, same |-> TRUE, mem |-> "Ok", red |-> "Ok",
           hurt |-> FALSE, foreign |-> FALSE, was_m |-> <<>>, was_r |-> <<>>,
           stale_m |-> FALSE, stale_r |-> FALSE, due |-> EmptyMap]

Outcomes(om, or) == [NoTwin EXCEPT !.same = ([om.res EXCEPT !.msg = <<>>] = [or.res EXCEPT !.msg = <<>>]),
                                   !.mem = om.res.tag, !.red = or.res.tag]

TwinSeen(om, or, op, args) ==
    IF observe = "twin" THEN [Outcomes(om, or) EXCEPT !.op = op]
    ELSE IF observe = "wall"
    THEN [NoTwin EXCEPT
              !.op = op, !.red = or.res.tag,
              !.hurt = (args.ctx # <<>> /\ Hurt(rstore, or.st, args.ctx[1]) # {}),
              !.foreign = (op = "register_wait" /\ Foreign(rstore, args.ctx[1], args.key[1]))]
    ELSE IF observe = "lease"
    THEN [NoTwin EXCEPT
              !.op = IF op = "get_session" THEN op ELSE "other",
              !.args = IF op = "get_session" THEN args ELSE NoArgs,
              !.red = IF op = "get_session" THEN or.res.tag ELSE "Ok",
              !.due = IF op = "register_wait" /\ or.res.tag = "Ok"
                      THEN IF args.ttl # <<>> THEN MapPut(rlast.due, args.key[1], mnow + args.ttl[1])
                           ELSE MapDel(rlast.due, args.key[1])
                      ELSE IF op = "create_session" /\ or.res.tag = "Ok"
                      THEN MapDel(rlast.due, args.key[1])
                      ELSE rlast.due]
    ELSE IF op = "find_wait_by_scope"
    THEN [Outcomes(om, or) EXCEPT
              !.op = op, !.args = args,
              !.was_m = WasMem(Here, args.ctx[1], args.user[1], args.scope[1]),
              !.was_r = WasRedis(rstore, args.ctx[1], args.user[1], args.scope[1]),
              !.stale_m = StaleMem(Here, args.ctx[1], args.user[1], args.scope[1], mnow),
              !.stale_r = StaleRedis(rstore, args.ctx[1], args.user[1], args.scope[1])]
    ELSE NoTwin

\* the comparison of the two stores ends with the first call they answer differently
TwinDone(om, or, op, args) ==
    /\ rlast.same
    /\ sessions' = IF RunsMem THEN om.st.sessions ELSE sessions
    /\ user_waits' = IF RunsMem THEN om.st.user_waits ELSE user_waits
    /\ scope_index' = IF RunsMem THEN om.st.scope_index ELSE scope_index
    /\ rstore' = IF RunsRedis THEN or.st ELSE rstore
    /\ rlast' = TwinSeen(om, or, op, args)
    /\ UNCHANGED <<mnow, mlast, bound, written, finder, in_ctx, in_data, in_pc, casVars, mapping, threads>>

TwinCreateSession ==
    \E ctx \in TwinCtxs, data \in TwinData :
        \E key \in (IF ensure_alignment(ctx, data) = AlignOk THEN TwinFreshKeys ELSE {"sk1"}) :
            TwinDone(create_session(Here, ctx, data, key), redis_create_session(rstore, ctx, data, key),
                     "create_session", Args(<<ctx>>, <<>>, <<>>, <<key>>, <<>>, <<>>))

TwinGetSession ==
    \E key \in SessionKeys :
        TwinDone(get_session(Here, key, mnow), redis_get_session(rstore, key),
                 "get_session", Args(<<>>, <<>>, <<>>, <<key>>, <<>>, <<>>))

TwinUpdateSession ==
    \E key \in SessionKeys, data \in TwinData :
        TwinDone(update_session(Here, key, data), redis_update_session(rstore, key, data),
                 "update_session", Args(<<>>, <<>>, <<>>, <<key>>, <<>>, <<>>))

TwinRemoveSession ==
    \E key \in SessionKeys :
        TwinDone(remove_session(Here, key), redis_remove_session(rstore, key),
                 "remove_session", Args(<<>>, <<>>, <<>>, <<key>>, <<>>, <<>>))

TwinRegisterWait ==
    \E ctx \in TwinCtxs, user_id \in TwinUsers, scope \in Scopes, session_key \in SessionKeys,
       data \in TwinData, ttl \in TwinTtls :
        TwinDone(register_wait(Here, ctx, user_id, scope, session_key, data, ttl, mnow),
                 redis_register_wait(rstore, ctx, user_id, scope, session_key, data, ttl, mnow),
                 "register_wait", Args(<<ctx>>, <<user_id>>, <<scope>>, <<session_key>>, <<>>, ttl))

TwinFindWaitByScope ==
    \E ctx \in TwinCtxs, user_id \in TwinUsers, scope \in Scopes :
        TwinDone(find_wait_by_scope(Here, ctx, user_id, scope, mnow),
                 redis_find_wait_by_scope(rstore, ctx, user_id, scope),
                 "find_wait_by_scope", Args(<<ctx>>, <<user_id>>, <<scope>>, <<>>, <<>>, <<>>))

TwinListWaitsForUser ==
    \E ctx \in TwinCtxs, user_id \in TwinUsers :
        TwinDone(list_waits_for_user(Here, ctx, user_id, mnow),
                 redis_list_waits_for_user(rstore, ctx, user_id),
                 "list_waits_for_user", Args(<<ctx>>, <<user_id>>, <<>>, <<>>, <<>>, <<>>))

TwinClearWait ==
    \E ctx \in TwinCtxs, user_id \in TwinUsers, scope \in Scopes :
        TwinDone(clear_wait(Here, ctx, user_id, scope), redis_clear_wait(rstore, ctx, user_id, scope),
                 "clear_wait", Args(<<ctx>>, <<user_id>>, <<scope>>, <<>>, <<>>, <<>>))

TwinFindByUser ==
    \E ctx \in TwinCtxs, user \in TwinUsers :
        TwinDone(find_by_user(Here, ctx, user, mnow, mnow), redis_find_by_user(rstore, ctx, user),
                 "find_by_user", Args(<<ctx>>, <<user>>, <<>>, <<>>, <<>>, <<>>))

\* time passes for both stores; Redis drops the keys whose deadline is reached
TwinTick ==
    /\ mnow < MaxTime
    /\ mnow' = mnow + 1
    /\ rstore' = IF RunsRedis THEN Expire(rstore, mnow + 1) ELSE rstore
    /\ rlast' = [NoTwin EXCEPT !.due = rlast.due]
    /\ UNCHANGED <<sessions, user_waits, scope_index, mlast, bound, written, finder, in_ctx, in_data, in_pc,
                   casVars, mapping, threads>>

NextTwin ==
    \/ TwinCreateSession
    \/ TwinGetSession
    \/ TwinUpdateSession
    \/ TwinRemoveSession
    \/ TwinRegisterWait
    \/ TwinFindWaitByScope
    \/ TwinListWaitsForUser
    \/ TwinClearWait
    \/ TwinFindByUser

NextTwinTtl == NextTwin \/ TwinTick

(***************************************************************************)
(* Part III : key derivation (src/src/mapping.rs)                          *)
(***************************************************************************)
MaxStr == 2
\* the characters of a field: a letter and the delimiter of the format
Chars == {"a", ":"}
RECURSIVE StrsOf(_)
StrsOf(n) == IF n = 0 THEN {<<>>} ELSE StrsOf(n - 1) \cup {Append(x, c) : x \in StrsOf(n - 1), c \in Chars}
Strs == StrsOf(MaxStr)

\* SHA-256 in hex: a digest that tells the hashed strings apart
hex_sha(input) == <<"sha256", input>>

\* mutant: the user is left out of the hashed string
telegram_update_to_session_key_no_user(bot_id, chat_id, user_id) ==
    hex_sha(<<"t", "g", ":">> \o bot_id \o <<":">> \o chat_id)

\* format!("tg:{bot_id}:{chat_id}:{user_id}")
telegram_update_to_session_key(bot_id, chat_id, user_id) ==
    hex_sha(<<"t", "g", ":">> \o bot_id \o <<":">> \o chat_id \o <<":">> \o user_id)

\* format!("wh:{source}:{subject}:{id_hint}")
webhook_to_session_key(source, subject, id_hint) ==
    hex_sha(<<"w", "h", ":">> \o source \o <<":">> \o subject \o <<":">> \o id_hint)

\* the fields of a call, those of a second call that changes one of them or none,
\* and the keys both calls returned
Mapping(op, fields, other, key, other_key) ==
    [op |-> op, fields |-> fields, other |-> other, key |-> key, other_key |-> other_key]
NoMapping == Mapping("none", <<>>, <<>>, <<>>, <<>>)

Changed(fields) ==
    {fields} \cup {[fields EXCEPT ![i] = v] : i \in 1..3, v \in Strs}


TelegramKey ==
    /\ mapping.op = "input"
    /\ mapping' = [mapping EXCEPT
                       !.op = "telegram",
                       !.key = <<telegram_update_to_session_key(mapping.fields[1], mapping.fields[2],
                                                                mapping.fields[3])>>,
                       !.other_key = <<telegram_update_to_session_key(mapping.other[1], mapping.other[2],
                                                                      mapping.other[3])>>]
    /\ UNCHANGED <<casVars, memVars, rstore, rlast, threads>>

WebhookKey ==
    /\ mapping.op = "input"
    /\ mapping' = [mapping EXCEPT
                       !.op = "webhook",
                       !.key = <<webhook_to_session_key(mapping.fields[1], mapping.fields[2],
                                                        mapping.fields[3])>>,
                       !.other_key = <<webhook_to_session_key(mapping.other[1], mapping.other[2],
                                                              mapping.other[3])>>]
    /\ UNCHANGED <<casVars, memVars, rstore, rlast, threads>>

NextMap == TelegramKey \/ WebhookKey

(***************************************************************************)
(* Part IV : the in-memory store under concurrent callers, one lock at a    *)
(* time (src/src/inmemory.rs, the parking_lot::RwLock of each map)         *)
(***************************************************************************)
Threads == {"t1", "t2"}

\* what the concurrent callers hand in: two fences, one user, one scope
LockCtxs == {BaseCtx, TeamBCtx}
LockData == {SessionData(c, 1) : c \in LockCtxs}
LockUser == "u1"
LockScope == "s1"
\* a wait is registered for good or with a ttl of no length, which has expired at once
LockTtls == {<<>>, <<0>>}
\* how many calls the threads make in all
MaxCalls == 3

\* a thread: where it is in its call, the arguments and locals it still needs, the
\* removals it has to make next (todo) and where it goes on after them (next), the
\* write guards it holds across steps, what it returns, and the calls it has made
NoThread == [pc |-> "idle", op |-> "none", ctx |-> <<>>, key |-> <<>>, data |-> <<>>, expires_at |-> <<>>,
             fresh |-> FALSE, keys |-> {}, avail |-> {}, todo |-> <<>>, next |-> "done", holds |-> {},
             res |-> MUnit, calls |-> 0]

\* RwLock::read() and RwLock::write() return once no other guard of the lock is
\* held; read guards live within one statement, so only write guards are ever
\* held across steps. A thread that holds the guard itself waits for ever.
Free(lock) == \A u \in Threads : lock \notin threads[u].holds

\* the lock a removal takes
LockOf(step) ==
    IF step[1] = "user" THEN "user_waits" ELSE IF step[1] = "scope" THEN "scope_index" ELSE "sessions"

\* the lock a thread takes with its next step
Wants(f) ==
    IF f.pc = "drain" THEN LockOf(Head(f.todo))
    ELSE IF f.pc \in {"rw_insert", "fw_get", "lw_loop", "fb_get"} THEN "sessions"
    ELSE IF f.pc = "rw_waits" THEN "user_waits"
    ELSE IF f.pc = "rw_scopes" THEN "scope_index"
    ELSE "none"

\* mutant: clear_wait keeps the scope_index guard while it removes the wait and the session
GuardKept_by_clear_wait(op, lock) ==
    \/ op = "remove_session" /\ lock = "sessions"
    \/ op = "register_wait" /\ lock = "scope_index"
    \/ op = "clear_wait" /\ lock = "scope_index"

\* does the operation keep the guard it took in its own body while it goes on:
\* remove_session takes sessions.write() in the scrutinee of its if let, so the
\* guard lives through purge_expired_session; register_wait binds scope_index.write()
\* to a local that lives to the end of the function
GuardKept(op, lock) ==
    \/ op = "remove_session" /\ lock = "sessions"
    \/ op = "register_wait" /\ lock = "scope_index"

Holding(op, lock) == IF GuardKept(op, lock) THEN {lock} ELSE {}

\* may thread t start a call
RECURSIVE CallsOf(_)
CallsOf(ts) == IF ts = {} THEN 0
               ELSE LET u == CHOOSE x \in ts : TRUE IN threads[u].calls + CallsOf(ts \ {u})
Idle(t) == threads[t].pc = "idle" /\ CallsOf(Threads) < MaxCalls

\* the call returns: its guards are dropped; that a register_wait succeeded, its key,
\* its data and whether the key held a session when it was read are remembered until
\* the caller goes on
Finish(f, res) ==
    IF f.op = "register_wait" /\ res.tag = "Ok"
    THEN [NoThread EXCEPT !.pc = "done", !.op = f.op, !.key = f.key, !.data = f.data, !.fresh = f.fresh,
                          !.calls = f.calls]
    ELSE [NoThread EXCEPT !.pc = "done", !.calls = f.calls]

\* after a step: the removals it left, then the next key of the list, the final
\* get_session of find_by_user, the next statement, or the return
After(f) ==
    IF f.todo # <<>> THEN [f EXCEPT !.pc = "drain"]
    ELSE IF f.next = "lw_loop"
    THEN IF f.keys # {} THEN [f EXCEPT !.pc = "lw_loop"]
         ELSE IF f.op = "list_waits_for_user" THEN Finish(f, MList(f.avail))
         ELSE IF Cardinality(f.avail) = 1 THEN [f EXCEPT !.pc = "fb_get"]
         ELSE IF f.avail = {} THEN Finish(f, MNone)
         ELSE Finish(f, invalid_argument(MultipleWaits))
    ELSE IF f.next = "done" THEN Finish(f, f.res)
    ELSE [f EXCEPT !.pc = f.next]

\* thread t as it enters a call
Begun(t, op) == [NoThread EXCEPT !.op = op, !.calls = threads[t].calls + 1]

ThreadKeeps == UNCHANGED <<mlast, bound, written, finder, in_ctx, in_data, in_pc, casVars, rstore, rlast, mapping>>

\* create_session: the key is generated and inserted under the sessions write lock
ThreadCreateSession(t) ==
    \E ctx \in LockCtxs, data \in LockData :
        /\ Idle(t)
        /\ \/ /\ ensure_alignment(ctx, data) # AlignOk
              /\ threads' = [threads EXCEPT ![t] = Finish(Begun(t, "create_session"),
                                                           ctx_mismatch(ensure_alignment(ctx, data)))]
              /\ UNCHANGED sessions
           \/ /\ ensure_alignment(ctx, data) = AlignOk
              /\ Free("sessions")
              /\ \E key \in FreshKeys :
                    /\ sessions' = create_session(Here, ctx, data, key).st.sessions
                    /\ threads' = [threads EXCEPT ![t] = Finish(Begun(t, "create_session"), MKey(key))]
        /\ UNCHANGED <<user_waits, scope_index, mnow>>
        /\ ThreadKeeps

\* get_session: the entry is read, and removed when expired, under the sessions write
\* lock; the purge follows after drop(sessions)
ThreadGetSession(t) ==
    \E key \in SessionKeys :
        /\ Idle(t)
        /\ Free("sessions")
        /\ LET got == GetLocked(Here, key, mnow)
           IN /\ sessions' = got.sessions
              /\ threads' = [threads EXCEPT ![t] =
                                After([Begun(t, "get_session") EXCEPT
                                          !.todo = got.todo,
                                          !.res = IF got.data = <<>> THEN MNone ELSE MSomeData(got.data[1])])]
        /\ UNCHANGED <<user_waits, scope_index, mnow>>
        /\ ThreadKeeps

\* update_session: read, check and insert under one sessions write guard
ThreadUpdateSession(t) ==
    \E key \in SessionKeys, data \in LockData :
        /\ Idle(t)
        /\ Free("sessions")
        /\ sessions' = update_session(Here, key, data).st.sessions
        /\ threads' = [threads EXCEPT ![t] = Finish(Begun(t, "update_session"), update_session(Here, key, data).res)]
        /\ UNCHANGED <<user_waits, scope_index, mnow>>
        /\ ThreadKeeps

\* remove_session: sessions.write().remove(key), then the purge of what was removed
ThreadRemoveSession(t) ==
    \E key \in SessionKeys :
        /\ Idle(t)
        /\ Free("sessions")
        /\ sessions' = MapDel(sessions, key)
        /\ threads' = [threads EXCEPT ![t] =
                          IF key \in DOMAIN sessions
                          THEN After([Begun(t, "remove_session") EXCEPT
                                         !.todo = PurgeSteps(key, sessions[key]),
                                         !.holds = Holding("remove_session", "sessions")])
                          ELSE Finish(Begun(t, "remove_session"), not_found(key))]
        /\ UNCHANGED <<user_waits, scope_index, mnow>>
        /\ ThreadKeeps

\* register_wait up to the read of the existing session: the two checks of the
\* arguments, the deadline, self.sessions.read().get(session_key).cloned() and the
\* check of the context against what was read
ThreadRegisterRead(t) ==
    \E ctx \in LockCtxs, data \in LockData, key \in SessionKeys, ttl \in LockTtls :
        /\ Idle(t)
        /\ LET f == Begun(t, "register_wait")
               held == key \in DOMAIN sessions
           IN IF ensure_alignment(ctx, data) # AlignOk
              THEN threads' = [threads EXCEPT ![t] = Finish(f, ctx_mismatch(ensure_alignment(ctx, data)))]
              ELSE IF ensure_user_matches(ctx, LockUser, data) # AlignOk
              THEN threads' = [threads EXCEPT ![t] =
                                  Finish(f, invalid_argument(<<ensure_user_matches(ctx, LockUser, data)>>))]
              ELSE /\ Free("sessions")
                   /\ threads' = [threads EXCEPT ![t] =
                         IF held /\ ensure_ctx_preserved(sessions[key].data.tenant_ctx, data.tenant_ctx) # AlignOk
                         THEN Finish(f, ctx_mismatch(ensure_ctx_preserved(sessions[key].data.tenant_ctx,
                                                                          data.tenant_ctx)))
                         ELSE After([f EXCEPT !.ctx = <<ctx>>, !.key = <<key>>, !.data = <<data>>,
                                              !.expires_at = ttl_deadline(ttl, mnow),
                                              !.fresh = ~held,
                                              !.todo = IF held THEN PurgeSteps(key, sessions[key]) ELSE <<>>,
                                              !.next = "rw_insert"])]
        /\ UNCHANGED <<sessions, user_waits, scope_index, mnow>>
        /\ ThreadKeeps

\* self.sessions.write().insert(session_key.clone(), entry)
ThreadRegisterInsert(t) ==
    /\ threads[t].pc = "rw_insert"
    /\ Free("sessions")
    /\ LET f == threads[t]
       IN /\ sessions' = MapPut(sessions, f.key[1],
                                SessionEntry(f.data[1], f.expires_at, <<UserLookupKey(f.ctx[1], LockUser)>>,
                                             <<ScopeLookupKey(f.ctx[1], LockUser, LockScope)>>))
          /\ threads' = [threads EXCEPT ![t] = [f EXCEPT !.pc = "rw_waits"]]
    /\ UNCHANGED <<user_waits, scope_index, mnow>>
    /\ ThreadKeeps

\* the key is added to the wait set under the user_waits write lock; drop(waits)
ThreadRegisterWaits(t) ==
    /\ threads[t].pc = "rw_waits"
    /\ Free("user_waits")
    /\ LET f == threads[t]
           user_lookup == UserLookupKey(f.ctx[1], LockUser)
       IN /\ user_waits' = MapPut(user_waits, user_lookup,
                                  (IF user_lookup \in DOMAIN user_waits THEN user_waits[user_lookup] ELSE {})
                                      \cup {f.key[1]})
          /\ threads' = [threads EXCEPT ![t] = [f EXCEPT !.pc = "rw_scopes"]]
    /\ UNCHANGED <<sessions, scope_index, mnow>>
    /\ ThreadKeeps

\* let mut scopes = self.scope_index.write(), and the look for another holder of the
\* scope, whose key is then removed from the wait set while scopes is held
ThreadRegisterScopes(t) ==
    /\ threads[t].pc = "rw_scopes"
    /\ Free("scope_index")
    /\ LET f == threads[t]
           scope_key == ScopeLookupKey(f.ctx[1], LockUser, LockScope)
       IN threads' = [threads EXCEPT ![t] =
              After([f EXCEPT !.holds = Holding("register_wait", "scope_index"),
                              !.todo = IF /\ scope_key \in DOMAIN scope_index
                                          /\ scope_index[scope_key].session_key # f.key[1]
                                       THEN << <<"user", UserLookupKey(f.ctx[1], LockUser),
                                                 scope_index[scope_key].session_key>> >>
                                       ELSE <<>>,
                              !.next = "rw_bind"])]
    /\ UNCHANGED <<sessions, user_waits, scope_index, mnow>>
    /\ ThreadKeeps

\* scopes.insert(scope_key, ScopeEntry { .. }); Ok(())
ThreadRegisterBind(t) ==
    /\ threads[t].pc = "rw_bind"
    /\ "scope_index" \in threads[t].holds \/ Free("scope_index")
    /\ LET f == threads[t]
       IN /\ scope_index' = MapPut(scope_index, ScopeLookupKey(f.ctx[1], LockUser, LockScope),
                                   ScopeEntry(f.key[1], f.expires_at))
          /\ threads' = [threads EXCEPT ![t] = Finish(f, MUnit)]
    /\ UNCHANGED <<sessions, user_waits, mnow>>
    /\ ThreadKeeps

\* find_wait_by_scope: the scope entry is read under the scope_index read lock; an
\* expired one is removed with the wait-set member and the session
ThreadFindRead(t) ==
    \E ctx \in LockCtxs :
        /\ Idle(t)
        /\ Free("scope_index")
        /\ LET scope_key == ScopeLookupKey(ctx, LockUser, LockScope)
               f == [Begun(t, "find_wait_by_scope") EXCEPT !.ctx = <<ctx>>]
           IN threads' = [threads EXCEPT ![t] =
                  IF scope_key \notin DOMAIN scope_index THEN Finish(f, MNone)
                  ELSE IF is_expired(scope_index[scope_key].expires_at, mnow)
                  THEN After([f EXCEPT !.res = MNone,
                                       !.todo = DropSteps(ctx, LockUser, LockScope,
                                                          scope_index[scope_key].session_key)
                                                    \o << <<"sess", scope_index[scope_key].session_key,
                                                            scope_index[scope_key].session_key>> >>])
                  ELSE [f EXCEPT !.pc = "fw_get", !.key = <<scope_index[scope_key].session_key>>]]
        /\ UNCHANGED <<sessions, user_waits, scope_index, mnow>>
        /\ ThreadKeeps

\* self.get_session(&entry.session_key) and the comparison of what it returned
ThreadFindGet(t) ==
    /\ threads[t].pc = "fw_get"
    /\ Free("sessions")
    /\ LET f == threads[t]
           got == GetLocked(Here, f.key[1], mnow)
           drop == DropSteps(f.ctx[1], LockUser, LockScope, f.key[1])
       IN /\ sessions' = got.sessions
          /\ threads' = [threads EXCEPT ![t] =
                            IF got.data = <<>> THEN After([f EXCEPT !.todo = got.todo \o drop, !.res = MNone])
                            ELSE IF FenceMismatch(got.data[1].tenant_ctx, f.ctx[1], LockUser)
                            THEN After([f EXCEPT !.todo = drop, !.res = MNone])
                            ELSE Finish(f, MSomeKey(f.key[1]))]
    /\ UNCHANGED <<user_waits, scope_index, mnow>>
    /\ ThreadKeeps

\* list_waits_for_user, also as the first half of find_by_user: the wait set is
\* copied under the user_waits read lock
ThreadListRead(t) ==
    \E ctx \in LockCtxs, op \in {"list_waits_for_user", "find_by_user"} :
        /\ Idle(t)
        /\ Free("user_waits")
        /\ threads' = [threads EXCEPT ![t] =
                          After([Begun(t, op) EXCEPT
                                    !.ctx = <<ctx>>,
                                    !.keys = IF UserLookupKey(ctx, LockUser) \in DOMAIN user_waits
                                             THEN user_waits[UserLookupKey(ctx, LockUser)] ELSE {},
                                    !.next = "lw_loop"])]
        /\ UNCHANGED <<sessions, user_waits, scope_index, mnow>>
        /\ ThreadKeeps

\* one turn of the loop: self.get_session(&key) and the comparison of what it returned
ThreadListGet(t) ==
    \E key \in threads[t].keys :
        /\ threads[t].pc = "lw_loop"
        /\ Free("sessions")
        /\ LET f == [threads[t] EXCEPT !.keys = @ \ {key}]
               got == GetLocked(Here, key, mnow)
               drop == << <<"user", UserLookupKey(f.ctx[1], LockUser), key>> >>
           IN /\ sessions' = got.sessions
              /\ threads' = [threads EXCEPT ![t] =
                                IF got.data = <<>> THEN After([f EXCEPT !.todo = got.todo \o drop])
                                ELSE IF FenceMismatch(got.data[1].tenant_ctx, f.ctx[1], LockUser)
                                THEN After([f EXCEPT !.todo = drop])
                                ELSE After([f EXCEPT !.avail = @ \cup {key}])]
        /\ UNCHANGED <<user_waits, scope_index, mnow>>
        /\ ThreadKeeps

\* find_by_user with one wait listed: self.get_session(&key)?.ok_or_else(|| not_found(&key))
ThreadFindByUserGet(t) ==
    /\ threads[t].pc = "fb_get"
    /\ Free("sessions")
    /\ LET f == threads[t]
           key == CHOOSE k \in f.avail : TRUE
           got == GetLocked(Here, key, mnow)
       IN /\ sessions' = got.sessions
          /\ threads' = [threads EXCEPT ![t] =
                            After([f EXCEPT !.todo = got.todo, !.next = "done", !.avail = {},
                                            !.res = IF got.data = <<>> THEN not_found(key)
                                                    ELSE MSomePair(key, got.data[1])])]
    /\ UNCHANGED <<user_waits, scope_index, mnow>>
    /\ ThreadKeeps

\* clear_wait: self.scope_index.write().remove(&scope_key), then the wait-set member
\* and the session of the entry removed
ThreadClearWait(t) ==
    \E ctx \in LockCtxs :
        /\ Idle(t)
        /\ Free("scope_index")
        /\ LET scope_key == ScopeLookupKey(ctx, LockUser, LockScope)
           IN /\ scope_index' = MapDel(scope_index, scope_key)
              /\ threads' = [threads EXCEPT ![t] =
                                IF scope_key \in DOMAIN scope_index
                                THEN After([Begun(t, "clear_wait") EXCEPT
                                               !.holds = Holding("clear_wait", "scope_index"),
                                               !.todo = << <<"user", UserLookupKey(ctx, LockUser),
                                                             scope_index[scope_key].session_key>>,
                                                           <<"sess_only", scope_index[scope_key].session_key,
                                                             scope_index[scope_key].session_key>> >>])
                                ELSE Finish(Begun(t, "clear_wait"), MUnit)]
        /\ UNCHANGED <<sessions, user_waits, mnow>>
        /\ ThreadKeeps

\* the next removal, under its own lock: remove_from_user_waits, remove_scope_entry,
\* sessions.write().remove alone or followed by the purge of what was removed
ThreadDrain(t) ==
    /\ threads[t].pc = "drain"
    /\ Free(LockOf(Head(threads[t].todo)))
    /\ LET f == threads[t]
           step == Head(f.todo)
           more == IF step[1] = "sess" /\ step[3] \in DOMAIN sessions
                   THEN PurgeSteps(step[3], sessions[step[3]]) ELSE <<>>
       IN /\ sessions' = IF step[1] \in {"sess", "sess_only"} THEN MapDel(sessions, step[3]) ELSE sessions
          /\ scope_index' = IF step[1] = "scope" THEN remove_scope_entry(Here, step[2]).scope_index
                            ELSE scope_index
          /\ user_waits' = IF step[1] = "user" THEN remove_from_user_waits(Here, step[2], step[3]).user_waits
                           ELSE user_waits
          /\ threads' = [threads EXCEPT ![t] = After([f EXCEPT !.todo = more \o Tail(f.todo)])]
    /\ UNCHANGED mnow
    /\ ThreadKeeps

\* the caller has its result and is free to call again
ThreadReturn(t) ==
    /\ threads[t].pc = "done"
    /\ threads' = [threads EXCEPT ![t] = [NoThread EXCEPT !.calls = threads[t].calls]]
    /\ UNCHANGED <<sessions, user_waits, scope_index, mnow>>
    /\ ThreadKeeps

\* a thread starts a call with the step that takes the call's first lock
Call(t) ==
    \/ ThreadCreateSession(t)
    \/ ThreadGetSession(t)
    \/ ThreadUpdateSession(t)
    \/ ThreadRemoveSession(t)
    \/ ThreadRegisterRead(t)
    \/ ThreadFindRead(t)
    \/ ThreadListRead(t)
    \/ ThreadClearWait(t)

\* a thread goes on with the call it is in
Proceed(t) ==
    \/ ThreadRegisterInsert(t)
    \/ ThreadRegisterWaits(t)
    \/ ThreadRegisterScopes(t)
    \/ ThreadRegisterBind(t)
    \/ ThreadFindGet(t)
    \/ ThreadListGet(t)
    \/ ThreadFindByUserGet(t)
    \/ ThreadDrain(t)
    \/ ThreadReturn(t)

NextLocks ==
    \E t \in Threads : Call(t) \/ Proceed(t)

ExtOff ==
    /\ rstore = EmptyRedis
    /\ rlast = NoTwin
    /\ mapping = NoMapping
    /\ threads = [t \in Threads |-> NoThread]

(***************************************************************************)
(* Specifications                                                          *)
(***************************************************************************)
CasStep(p, ss, ts) ==
    \/ \E key \in Keys : get_resolve(p, key)
    \/ get_load(p)
    \/ get_purge(p)
    \/ \E s \in ss : put_load(p, s)
    \/ put_set(p)
    \/ put_sync(p)
    \/ \E s \in ss, expected \in 0..MaxCas : update_cas_script(p, s, expected)
    \/ update_cas_purge(p)
    \/ update_cas_touch(p)
    \/ \E key \in Keys : delete_resolve(p, key)
    \/ delete_data(p)
    \/ delete_lookup(p)
    \/ \E key \in Keys, ttl_secs \in ts : touch_resolve(p, key, ttl_secs)
    \/ touch_load(p)
    \/ touch_purge(p)
    \/ touch_script(p)
    \/ touch_expire(p)

\* concurrent clients of one tenant writing records that never expire:
\* any client may take its next step
ConcSessions == {s \in Sessions : s.tenant_id = "ta" /\ s.ttl_secs = 0}
ConcTtlOpts == {<<>>, <<0>>}
NextCas == \E p \in Procs : CasStep(p, ConcSessions, ConcTtlOpts)

\* one client, one call at a time, every tenant and ttl, one payload
SeqSessions == {s \in Sessions : s.outbox_seq = 1}
NextCasSeq == RedisTick \/ CasStep("p1", SeqSessions, TtlOpts)

\* one client of one tenant, the clock running past every deadline; touch may carry
\* a ttl longer than any a record is written with
LongTtl == MaxTtl + 1
TtlSessions == {s \in Sessions : s.tenant_id = "ta" /\ s.outbox_seq = 1}
TouchTtlOpts == TtlOpts \cup {<<LongTtl>>}
NextCasTtl == RedisTick \/ CasStep("p1", TtlSessions, TouchTtlOpts)

\* two clients of one tenant that only write: put, update_cas and touch, in any interleaving
WriteStep(p, ss, ts) ==
    \/ \E s \in ss : put_load(p, s)
    \/ put_set(p)
    \/ put_sync(p)
    \/ \E s \in ss, expected \in 0..MaxCas : update_cas_script(p, s, expected)
    \/ update_cas_purge(p)
    \/ update_cas_touch(p)
    \/ \E key \in Keys, ttl_secs \in ts : touch_resolve(p, key, ttl_secs)
    \/ touch_load(p)
    \/ touch_purge(p)
    \/ touch_script(p)
    \/ touch_expire(p)

NextCasMirror == RedisTick \/ \E p \in Procs : WriteStep(p, TtlSessions, TtlOpts)

Init ==
    /\ CasInit("writers")
    /\ MemInit
    /\ AlignOff
    /\ ExtOff

InitCasSeq ==
    /\ CasInit("calls")
    /\ MemInit
    /\ AlignOff
    /\ ExtOff

InitMemFence ==
    /\ CasInit("fence")
    /\ MemInit
    /\ AlignOff
    /\ ExtOff

InitMemFind ==
    /\ CasInit("find")
    /\ MemInit
    /\ AlignOff
    /\ ExtOff

InitMemRoute ==
    /\ CasInit("route")
    /\ MemInit
    /\ AlignOff
    /\ ExtOff

InitMemReplace ==
    /\ CasInit("replace")
    /\ MemInit
    /\ AlignOff
    /\ ExtOff

InitMemExpiry ==
    /\ CasInit("expiry")
    /\ MemInit
    /\ AlignOff
    /\ ExtOff

InitMemHeal ==
    /\ CasInit("heal")
    /\ MemInit
    /\ AlignOff
    /\ ExtOff

InitMemData ==
    /\ CasInit("data")
    /\ MemInit
    /\ AlignOff
    /\ ExtOff

InitMemFrame ==
    /\ CasInit("frame")
    /\ MemInit
    /\ AlignOff
    /\ ExtOff

InitMemLapse ==
    /\ CasInit("lapse")
    /\ MemInit
    /\ AlignOff
    /\ ExtOff

InitLocks ==
    /\ CasInit("locks")
    /\ MemInit
    /\ AlignOff
    /\ ExtOff

InitCasTtl ==
    /\ CasInit("ttl")
    /\ MemInit
    /\ AlignOff
    /\ ExtOff

InitCasPurge ==
    /\ CasInit("purge")
    /\ MemInit
    /\ AlignOff
    /\ ExtOff

InitCasMirror ==
    /\ CasInit("mirror")
    /\ MemInit
    /\ AlignOff
    /\ ExtOff

InitAlign ==
    /\ CasInit("calls")
    /\ MemInit
    /\ AlignInit
    /\ ExtOff

InitTwin ==
    /\ CasInit("twin")
    /\ MemInit
    /\ AlignOff
    /\ ExtOff

InitWall ==
    /\ CasInit("wall")
    /\ MemInit
    /\ AlignOff
    /\ ExtOff

InitLease ==
    /\ CasInit("lease")
    /\ MemInit
    /\ AlignOff
    /\ ExtOff

InitPrune ==
    /\ \E side \in {"prune_mem", "prune_redis"} : CasInit(side)
    /\ MemInit
    /\ AlignOff
    /\ ExtOff

InitMap ==
    /\ CasInit("map")
    /\ MemInit
    /\ AlignOff
    /\ rstore = EmptyRedis
    /\ rlast = NoTwin
    /\ threads = [t \in Threads |-> NoThread]
    /\ \E fields \in Strs \X Strs \X Strs :
           \E other \in Changed(fields) : mapping = Mapping("input", fields, other, <<>>, <<>>)

\* concurrent writers of the Redis CAS store
SpecCas == Init /\ [][NextCas]_vars

\* one caller of the Redis CAS store
SpecCasSeq == InitCasSeq /\ [][NextCasSeq]_vars

\* one caller of the Redis CAS store, its last write kept with the ttl it carried
SpecCasTtl == InitCasTtl /\ [][NextCasTtl]_vars

\* two writers of the Redis CAS store and the clock, their touch calls kept with the
\* record they began on
SpecCasMirror == InitCasMirror /\ [][NextCasMirror]_vars

\* one caller of the in-memory routing store, the outcome of its updates kept
SpecMemFence == InitMemFence /\ [][NextMem]_vars

\* one caller of the in-memory routing store, the outcome of its find_by_user calls kept
SpecMemFind == InitMemFind /\ [][NextMem]_vars

\* one caller of the in-memory routing store, its wait calls kept with the store they found
SpecMemRoute == InitMemRoute /\ [][NextMem]_vars

\* one caller of the in-memory routing store, its accepted register_wait calls and
\* its clear_wait calls kept with what they found
SpecMemReplace == InitMemReplace /\ [][NextMem]_vars

\* one caller of the in-memory routing store, its reads kept with the expired waits they met
SpecMemExpiry == InitMemExpiry /\ [][NextMem]_vars

\* one caller of the in-memory routing store, its get, update and remove calls kept
\* with the payloads written before
SpecMemData == InitMemData /\ [][NextMem]_vars

\* the in-memory store, one caller, the calls that unbind a scope or update a session kept
SpecMemFrame == InitMemFrame /\ [][NextMem]_vars

\* the in-memory store, one caller, callers of two users registering waits
SpecMemLapse == InitMemLapse /\ [][NextMem]_vars

\* callers of the in-memory routing store next to one caller whose lookup takes its
\* locks one at a time
SpecMemHeal == InitMemHeal /\ [][NextHeal]_vars

\* the checks of create_session and register_wait over every (ctx, data)
SpecAlign == InitAlign /\ [][NextAlign]_vars

\* concurrent clients of the Redis CAS store, a put overlapping a get or touch that purges
SpecCasPurge == InitCasPurge /\ [][NextCas]_vars

\* both routing stores, call by call, without ttl
SpecTwin == InitTwin /\ [][NextTwin]_vars

\* the Redis routing store, with waits that expire
SpecWall == InitWall /\ [][NextTwinTtl]_vars

\* the Redis routing store, with the deadline of every wait kept
SpecLease == InitLease /\ [][NextTwinTtl]_vars

\* one of the routing stores, with waits that expire
SpecPrune == InitPrune /\ [][NextTwinTtl]_vars

\* the key mapping applied to two sets of fields
SpecMap == InitMap /\ [][NextMap]_vars

\* the in-memory store, two threads, every lock taken in a step of its own
SpecLocks == InitLocks /\ [][NextLocks]_vars

\* parking_lot hands a lock that is released again and again to each waiter in the
\* end, and a thread that can run does run
SpecLocksFair == SpecLocks /\ \A t \in Threads : SF_vars(Proceed(t))

(***************************************************************************)
(* Part I : properties of the CAS store                                    *)
(***************************************************************************)

\* C1: the record of key k is at CAS c and two writers that both read c each
\* call update_cas(., c): exactly one call returns Ok(c+1), the other returns
\* Err(c+1), and every get(k) that follows returns the winner's session with
\* CAS c+1 (no key of k expires while the scenario runs).
C1_TwoWritersOneWinner ==
    race.on =>
        /\ ~race.bad
        /\ Cardinality(race.okBy) <= 1
        /\ (Cardinality(race.who) = 2 /\ race.who = race.okBy \cup race.errBy
              => Cardinality(race.okBy) = 1 /\ Cardinality(race.errBy) = 1)
        /\ \A g \in race.gets : g = <<"Some", race.c + 1, race.wsess>>

C1_Witness ==
    /\ RaceOver("k1")
    /\ ~race.bad
    /\ race.gets # {}

\* C2: the CAS values committed (and returned) by successful put and update_cas
\* calls on one key are strictly increasing in commit order, for as long as the
\* key's record is neither deleted nor expired.
C2_CasStrictlyIncreasing ==
    \A k \in Keys : commits[k].last = 0 \/ commits[k].prev < commits[k].last

\* C3: once update_cas on key k has returned Ok(e'), every get(k) called later
\* returns Some with CAS >= e', for as long as k is neither deleted nor expired.
C3_GetSeesCommittedCas ==
    (lastDone.op = "get" /\ lastDone.floor > 0)
        => (lastDone.res.tag = "Some" /\ lastDone.res.cas >= lastDone.floor)

\* C4: put returns Cas::initial() when no record exists for the session key and
\* the current CAS + 1 when a record for that session key exists, and the get
\* that follows returns the put session with exactly the returned CAS.
C4_PutReturnsNextCas ==
    /\ (lastDone.op = "put" /\ ~lastDone.lapsed)
          => /\ (~lastDone.any => lastDone.res.cas = CasInitial)
             /\ (lastDone.pre > 0 => lastDone.res.cas = lastDone.pre + 1)
    /\ (lastDone.op = "get" /\ prevDone.op = "put" /\ ~prevDone.lapsed /\ ~lastDone.lapsed)
          => /\ lastDone.res.tag = "Some"
             /\ lastDone.res.cas = prevDone.res.cas
             /\ lastDone.res.sess = prevDone.res.sess

\* C5: update_cas on a key with no record stored under the session's data key
\* returns Err(Cas::none()) and creates no record; the get that follows
\* returns None.
C5_UpdateCasOnAbsentKey ==
    /\ (lastDone.op = "update_cas" /\ ~lastDone.own)
          => /\ lastDone.res.tag = "Err"
             /\ lastDone.res.cas = CasNone
             /\ Quiet => /\ rdata[data_key(lastDone.tenant, lastDone.key)] = <<>>
                         /\ (~lastDone.any => \A t \in Tenants : rdata[data_key(t, lastDone.key)] = <<>>)
    /\ (lastDone.op = "get" /\ prevDone.op = "update_cas" /\ ~prevDone.own)
          => lastDone.res.tag = "None"

C5_Witness ==
    /\ lastDone.op = "get"
    /\ prevDone.op = "update_cas"
    /\ ~prevDone.own
    /\ prevDone.res.tag = "Err"
    /\ lastDone.res.tag = "None"

(***************************************************************************)
(* Part II : properties of the in-memory routing store                     *)
(***************************************************************************)

\* one step keeps the fence of every key that stays stored, and a rejected
\* change of the fence leaves the three maps as they were
FenceKept ==
    /\ \A k \in DOMAIN sessions \cap DOMAIN sessions' :
           Fence(sessions'[k].data.tenant_ctx) = Fence(sessions[k].data.tenant_ctx)
    /\ (mlast'.op \in {"update_session", "register_wait"} /\ mlast'.ghost.changed)
          => /\ mlast'.res.tag = "InvalidInput"
             /\ sessions' = sessions
             /\ user_waits' = user_waits
             /\ scope_index' = scope_index

\* C6: the stored env, tenant, normalized team and normalized user of a session
\* key never change between the key's creation and its removal; update_session
\* or register_wait on an existing key with data that changes env, tenant or
\* team, or changes, introduces or removes the user, returns InvalidInput and
\* leaves the sessions and both indices unchanged.
C6_ContextImmutable == [][FenceKept]_vars

C6_Witness ==
    /\ mlast.op = "register_wait"
    /\ mlast.ghost.changed
    /\ mlast.res.tag = "InvalidInput"
    /\ DOMAIN sessions # {}

\* the alignment condition as the specification words it
Aligned(ctx, data) ==
    /\ ctx.env = data.tenant_ctx.env
    /\ ctx.tenant_id = data.tenant_ctx.tenant_id
    /\ normalize_team(ctx) = normalize_team(data.tenant_ctx)
    /\ (normalize_user(data.tenant_ctx) = Nil \/ normalize_user(ctx) = normalize_user(data.tenant_ctx))

\* C7: create_session(ctx, data) succeeds, storing data under the returned key,
\* exactly when env and tenant are equal, the normalized teams are equal and
\* data has no normalized user or the normalized users are equal; otherwise it
\* returns InvalidInput and stores no session.
C7_CreateAlignment ==
    in_pc = "done" =>
        IF Aligned(in_ctx, in_data)
        THEN /\ mlast.res.tag = "Ok"
             /\ DOMAIN sessions = {mlast.res.key[1]}
             /\ sessions[mlast.res.key[1]].data = in_data
        ELSE /\ mlast.res.tag = "InvalidInput"
             /\ DOMAIN sessions = {}

C7_Witness ==
    /\ in_pc = "done"
    /\ normalize_team(in_ctx) # normalize_team(in_data.tenant_ctx)
    /\ in_ctx.env = in_data.tenant_ctx.env
    /\ in_ctx.tenant_id = in_data.tenant_ctx.tenant_id
    /\ mlast.res.tag = "InvalidInput"

\* C8 as stated: whenever env, tenant, normalized team or user differs between
\* ctx and data.tenant_ctx, a user present on one side only included,
\* create_session returns InvalidInput.
C8_AnyDifferenceRejected ==
    (/\ in_pc = "done"
     /\ \/ in_ctx.env # in_data.tenant_ctx.env
        \/ in_ctx.tenant_id # in_data.tenant_ctx.tenant_id
        \/ normalize_team(in_ctx) # normalize_team(in_data.tenant_ctx)
        \/ normalize_user(in_ctx) # normalize_user(in_data.tenant_ctx))
        => mlast.res.tag = "InvalidInput"

\* C8: whenever env, tenant or normalized team differs between ctx and
\* data.tenant_ctx, or data carries a user that ctx lacks or names differently,
\* create_session returns InvalidInput (a user present only in ctx is accepted).
C8_DifferenceRejected ==
    (/\ in_pc = "done"
     /\ \/ in_ctx.env # in_data.tenant_ctx.env
        \/ in_ctx.tenant_id # in_data.tenant_ctx.tenant_id
        \/ normalize_team(in_ctx) # normalize_team(in_data.tenant_ctx)
        \/ /\ normalize_user(in_data.tenant_ctx) # Nil
           /\ normalize_user(in_ctx) # normalize_user(in_data.tenant_ctx))
        => (mlast.res.tag = "InvalidInput" /\ DOMAIN sessions = {})

C8_Witness ==
    /\ in_pc = "done"
    /\ Fence(in_ctx)[1] = Fence(in_data.tenant_ctx)[1]
    /\ Fence(in_ctx)[2] = Fence(in_data.tenant_ctx)[2]
    /\ Fence(in_ctx)[3] = Fence(in_data.tenant_ctx)[3]
    /\ normalize_user(in_data.tenant_ctx) # Nil
    /\ normalize_user(in_ctx) = Nil
    /\ mlast.res.tag = "InvalidInput"

\* C9: after create_session(ctx, data) for (env, tenant, team t, user u)
\* returned k, find_by_user(ctx, u) returns (k, data); find_by_user with a ctx
\* of another team, or for another user, returns None.
C9_FindByUserAfterCreate ==
    (mlast.op = "find_by_user" /\ ~mlast.ghost.lapsed)
        => /\ (mlast.ghost.n = 0 /\ Cardinality(mlast.ghost.made) = 1)
                 => /\ mlast.res.tag = "Some"
                    /\ <<mlast.res.key[1], mlast.res.data[1]>> \in mlast.ghost.made
           /\ ~mlast.ghost.any => mlast.res.tag = "None"

C11_WaitsRoutedByScope ==
    (/\ ~bound.lost
     /\ bound.who # <<>>
     /\ mlast.args.ctx = <<bound.who[1]>>
     /\ mlast.args.user = <<bound.who[2]>>)
        => /\ (mlast.op = "find_wait_by_scope" /\ mlast.args.scope[1] \in DOMAIN bound.of)
                  => mlast.res = MSomeKey(bound.of[mlast.args.scope[1]])
           /\ mlast.op = "list_waits_for_user" => mlast.res = MList(Range(bound.of))

\* two scopes bound to two keys, and the list of the user's waits taken
C11_Witness ==
    /\ ~bound.lost
    /\ Cardinality(DOMAIN bound.of) = 2
    /\ Cardinality(Range(bound.of)) = 2
    /\ mlast.op = "list_waits_for_user"
    /\ mlast.args.ctx = <<bound.who[1]>>
    /\ mlast.args.user = <<bound.who[2]>>
    /\ mlast.res = MList(SessionKeys)

\* C12: right after a successful register_wait(ctx, u, s, k2) that found scope s
\* bound to another key k1, find_wait_by_scope(ctx, u, s) returns k2 and
\* list_waits_for_user(ctx, u) contains k2 and no longer k1.
C12_RegisterReplacesWait ==
    (/\ mlast.op = "register_wait"
     /\ mlast.at = mnow
     /\ mlast.pre.was # <<>>
     /\ mlast.pre.was # mlast.args.key)
        => LET ctx == mlast.args.ctx[1]
               u == mlast.args.user[1]
           IN /\ find_wait_by_scope(Here, ctx, u, mlast.args.scope[1], mnow).res = MSomeKey(mlast.args.key[1])
              /\ mlast.args.key[1] \in list_waits_for_user(Here, ctx, u, mnow).res.keys
              /\ mlast.pre.was[1] \notin list_waits_for_user(Here, ctx, u, mnow).res.keys

\* C13: register_wait returns InvalidInput and stores nothing (no session entry,
\* no scope entry, no wait-set member) unless the data carries a normalized user
\* equal to user_id and the normalized user of ctx, when present, equals user_id.
C13_WaitUserMustMatch ==
    (/\ in_pc = "waited"
     /\ ~(/\ normalize_user(in_data.tenant_ctx) = mlast.args.user[1]
          /\ normalize_user(in_ctx) \in {Nil, mlast.args.user[1]}))
        => /\ mlast.res.tag = "InvalidInput"
           /\ sessions = EmptyMap
           /\ user_waits = EmptyMap
           /\ scope_index = EmptyMap

\* a call whose ctx and data agree on a user other than the user of the wait
C13_Witness ==
    /\ in_pc = "waited"
    /\ ensure_alignment(in_ctx, in_data) = AlignOk
    /\ normalize_user(in_data.tenant_ctx) = "u1"
    /\ mlast.args.user = <<"u2">>
    /\ mlast.res.tag = "InvalidInput"
    /\ sessions = EmptyMap

\* does any index of the store still refer to key
Indexed(key) ==
    \/ \E x \in DOMAIN scope_index : scope_index[x].session_key = key
    \/ \E l \in DOMAIN user_waits : key \in user_waits[l]

\* C14: once the ttl of a registered wait has elapsed the wait is not resumed:
\* get_session of its key and find_wait_by_scope of its scope return None,
\* list_waits_for_user omits the key, and the first of these accesses removes
\* the session entry, its scope-index entry and its wait-set membership.
C14_ExpiredWaitNotResumed ==
    \A k \in mlast.pre.lapsed :
        /\ mlast.op \in {"get_session", "find_wait_by_scope"} => mlast.res = MNone
        /\ mlast.op = "list_waits_for_user" => mlast.res.tag = "Ok" /\ k \notin mlast.res.keys
        /\ k \notin DOMAIN sessions
        /\ ~Indexed(k)

\* a find by scope that met an expired wait still written in all three maps
C14_Witness ==
    /\ mlast.op = "find_wait_by_scope"
    /\ mlast.pre.lapsed # {}
    /\ mlast.res = MNone
    /\ sessions = EmptyMap
    /\ scope_index = EmptyMap
    /\ user_waits = EmptyMap

\* C15: every key that find_wait_by_scope(ctx, u, .) or list_waits_for_user(ctx, u)
\* returns, whatever other callers did before and during the call, names a session
\* that existed unexpired at some instant during the call with the env, tenant and
\* normalized team of ctx and, when it stores a user, the user u.
C15_ReturnedWaitsAreLive ==
    finder.pc = "idle"
        => /\ finder.res.key # <<>> => finder.res.key[1] \in finder.live
           /\ finder.res.keys \subseteq finder.live

\* a list of two waits returned by the lookup that takes its locks one at a time
C15_Witness ==
    /\ finder.pc = "idle"
    /\ finder.op = "list_waits_for_user"
    /\ finder.res.keys = SessionKeys
    /\ finder.live = SessionKeys

\* C16: clear_wait(ctx, u, s) returns Ok; it changes nothing when no wait is
\* registered at s, and when s is bound to k it removes the scope entry, the
\* membership of k in the wait set of u and the session k, so that
\* find_wait_by_scope(ctx, u, s) and get_session(k) return None afterwards.
C16_ClearWait ==
    mlast.op = "clear_wait"
        => /\ mlast.res = MUnit
           /\ mlast.pre.was = <<>> => mlast.pre.same
           /\ mlast.pre.was # <<>>
                 => LET ctx == mlast.args.ctx[1]
                        u == mlast.args.user[1]
                        s == mlast.args.scope[1]
                    IN /\ ScopeLookupKey(ctx, u, s) \notin DOMAIN scope_index
                       /\ UserLookupKey(ctx, u) \in DOMAIN user_waits
                             => mlast.pre.was[1] \notin user_waits[UserLookupKey(ctx, u)]
                       /\ mlast.pre.was[1] \notin DOMAIN sessions
                       /\ find_wait_by_scope(Here, ctx, u, s, mnow).res = MNone
                       /\ get_session(Here, mlast.pre.was[1], mnow).res = MNone

\* a wait cleared while the user holds another one
C16_Witness ==
    /\ mlast.op = "clear_wait"
    /\ mlast.pre.was # <<>>
    /\ ~mlast.pre.same
    /\ mlast.res = MUnit
    /\ mlast.pre.was[1] \notin DOMAIN sessions
    /\ user_waits # EmptyMap

(***************************************************************************)
(* Part II : the four session operations                                   *)
(***************************************************************************)
\* C17: after remove_session(k) has succeeded, in any sequential history, the
\* session is gone and no scope-index entry and no wait set refers to k.
C17_RemovePurgesIndex ==
    (mlast.op = "remove_session" /\ mlast.res = MUnit)
        => /\ mlast.args.key[1] \notin DOMAIN sessions
           /\ ~Indexed(mlast.args.key[1])

\* the session of one of two registered waits removed
C17_Witness ==
    /\ mlast.op = "remove_session"
    /\ mlast.res = MUnit
    /\ mlast.pre.held
    /\ \E l \in DOMAIN user_waits : user_waits[l] = SessionKeys \ {mlast.args.key[1]}
    /\ Cardinality(DOMAIN scope_index) = 1

\* C18: get_session(k) returns exactly the payload most recently stored for k:
\* the data given to create_session or register_wait, replaced by the data of each
\* later successful update_session, and None once remove_session(k) has succeeded.
C18_GetReturnsLastWrite ==
    (mlast.op = "get_session" /\ mlast.args.key[1] \in DOMAIN written)
        => mlast.res = IF written[mlast.args.key[1]] = <<>> THEN MNone
                       ELSE MSomeData(written[mlast.args.key[1]][1])

\* a get that returns the payload last written under the key of a created session
C18_Witness ==
    /\ mlast.op = "get_session"
    /\ mlast.res.tag = "Some"
    /\ mlast.res.data = <<SessionData(LegacyCtx, 1)>>
    /\ written[mlast.args.key[1]] = <<SessionData(LegacyCtx, 1)>>
    /\ sessions[mlast.args.key[1]].wait_user = <<>>

\* C19: update_session and remove_session on a key that holds no session return
\* NotFound and leave the sessions and the indices as they were; so does a
\* remove_session of a key whose last write was a successful remove_session.
C19_AbsentKeyNotFound ==
    (/\ mlast.op \in {"update_session", "remove_session"}
     /\ \/ ~mlast.pre.held
        \/ mlast.op = "remove_session" /\ mlast.pre.gone)
        => /\ mlast.res = not_found(mlast.args.key[1])
           /\ mlast.pre.same

\* a second remove_session of a key, while the store holds a wait of another key
C19_Witness ==
    /\ mlast.op = "remove_session"
    /\ mlast.pre.gone
    /\ mlast.res.tag = "NotFound"
    /\ mlast.pre.same
    /\ sessions # EmptyMap
    /\ scope_index # EmptyMap

\* the positions of an outbox that hold the first occurrence of their (seq, payload_sha256)
FirstSeen(ob) ==
    {i \in 1..Len(ob) : \A j \in 1..(i - 1) :
        <<ob[j].seq, ob[j].payload_sha256>> # <<ob[i].seq, ob[i].payload_sha256>>}

\* C20: the session a get returns holds no two outbox entries with equal
\* (seq, payload_sha256), and its outbox is the written outbox restricted to the
\* first occurrence of each pair, in the written order
C20_OutboxFirstWins ==
    (lastDone.op = "get" /\ lastDone.res.tag = "Some") =>
        LET got == lastDone.res.sess[1].outbox
            given == OutboxFor(lastDone.res.sess[1].outbox_seq)
        IN /\ \A i, j \in 1..Len(got) :
                  (got[i].seq = got[j].seq /\ got[i].payload_sha256 = got[j].payload_sha256) => i = j
           /\ Len(got) = Cardinality(FirstSeen(given))
           /\ \A i \in FirstSeen(given) :
                  got[Cardinality({j \in FirstSeen(given) : j <= i})] = given[i]

\* a get returns the outbox <<{1,H1}, {1,H1}, {2,H2}>> was written with, as <<{1,H1}, {2,H2}>>
C20_Witness ==
    /\ lastDone.op = "get"
    /\ lastDone.res.tag = "Some"
    /\ lastDone.res.sess[1].outbox_seq = 1
    /\ lastDone.res.sess[1].outbox = <<OutboxEntry(1, H1, 0), OutboxEntry(2, H2, 0)>>
    /\ Len(OutboxFor(1)) = 3

(***************************************************************************)
(* Part I : deadlines of the CAS store                                     *)
(***************************************************************************)

\* C21: after touch(key, Some(t)), t > 0, has returned true, every get that
\* returns less than t seconds after the touch began returns the record, and
\* every get that begins t seconds or more after the touch returned returns None.
C21_TouchResetsDeadline ==
    (lastDone.op = "get" /\ prevDone.op = "touch" /\ prevDone.arg # <<>> /\ prevDone.arg[1] > 0)
        => /\ (lastDone.end < prevDone.at + prevDone.arg[1] => lastDone.res.tag = "Some")
           /\ (lastDone.at >= prevDone.end + prevDone.arg[1] => lastDone.res.tag = "None")

\* C22: while the last write of a record (put, accepted update_cas or touch)
\* carried ttl_secs = 0, every get returns the record; when it carried
\* ttl_secs > 0, every get that begins ttl_secs or more after the write returned
\* returns None.
C22_TtlOfLastWrite ==
    (lastDone.op = "get" /\ prevDone.op \in {"put", "update_cas", "touch"})
        => /\ (prevDone.ttl[1] = 0 => lastDone.res.tag = "Some")
           /\ (prevDone.ttl[1] > 0 /\ lastDone.at >= prevDone.end + prevDone.ttl[1]
                 => lastDone.res.tag = "None")

\* the lookup entry of key lives at least as long as the record stored under tenant_id
Mirrored(tenant_id, key) ==
    LET record == rdata[data_key(tenant_id, key)]
        entry == rlookup[lookup_key(key)]
    IN record # <<>> =>
          /\ entry # <<>>
          /\ entry[1].val = tenant_id
          /\ entry[1].exp = 0 \/ (record[1].exp # 0 /\ record[1].exp <= entry[1].exp)

\* C30: when every put, update_cas and touch call has returned, the lookup entry
\* of each stored record exists and does not expire before the record
C30_LookupOutlivesRecord ==
    Quiet => \A key \in Keys : Mirrored("ta", key)

\* C23: a touch during which no key expires returns true when a get would have
\* returned the record as the touch began, and false when it would not and no
\* record is stored as the touch returns; other callers may run put, update_cas
\* and touch on the key meanwhile
C23_TouchTrueIffLive ==
    (lastDone.op = "touch" /\ ~lastDone.lapsed)
        => /\ (lastDone.pre > 0 => lastDone.res.ok)
           /\ (lastDone.pre = 0 /\ ~lastDone.any => ~lastDone.res.ok)

\* C24: a delete during which no key expires returns true exactly when a record
\* was stored for the key as it began; once it has returned no record and no
\* lookup entry of the key is left and a get returns None
C24_DeleteRemovesRecord ==
    (lastDone.op = "delete" /\ ~lastDone.lapsed)
        => /\ lastDone.res.ok <=> lastDone.any
           /\ Quiet => /\ \A t \in Tenants : rdata[data_key(t, lastDone.key)] = <<>>
                       /\ rlookup[lookup_key(lastDone.key)] = <<>>
                       /\ ViewCas(lastDone.key) = 0

\* C25: update_cas with a session of one tenant, on a key whose record a get
\* returns and no record of which is stored under that tenant, fails with
\* InvalidInput
C25_UpdateCasOtherTenant ==
    (lastDone.op = "update_cas" /\ ~lastDone.lapsed /\ lastDone.pre > 0 /\ ~lastDone.own)
        => lastDone.res.tag = "InvalidInput"

(***************************************************************************)
(* Part III : key derivation                                               *)
(***************************************************************************)
\* C28: a key mapping gives the same key for equal fields and, SHA-256 taken as
\* injective, a different key when one field is changed and the other two kept,
\* for telegram_update_to_session_key and for webhook_to_session_key
C28_KeyDeterministicFieldSensitive ==
    mapping.op \in {"telegram", "webhook"}
        => (mapping.key = mapping.other_key <=> mapping.fields = mapping.other)

\* the changed field is the middle one and the delimiter moves from it to its neighbour
C28_Witness ==
    /\ mapping.op = "webhook"
    /\ mapping.fields = <<<<"a">>, <<":", "a">>, <<>>>>
    /\ mapping.other = <<<<"a">>, <<"a", ":">>, <<>>>>
    /\ mapping.key # mapping.other_key
(***************************************************************************)
(* Part III : the Redis routing store                                      *)
(***************************************************************************)
\* the state both stores are in after a find_wait_by_scope pruned the scope it was
\* called for: the scope is bound to nothing and the key it was bound to is no
\* member of the caller's wait set
PrunedMem ==
    LET ctx == rlast.args.ctx[1]
        user == rlast.args.user[1]
    IN /\ ScopeLookupKey(ctx, user, rlast.args.scope[1]) \notin DOMAIN scope_index
       /\ UserLookupKey(ctx, user) \in DOMAIN user_waits
              => rlast.was_m[1] \notin user_waits[UserLookupKey(ctx, user)]
PrunedRedis ==
    LET ctx == rlast.args.ctx[1]
        user == rlast.args.user[1]
    IN /\ GET(rstore.scopes, scope_wait_key(ctx, user, rlast.args.scope[1])) = <<>>
       /\ rlast.was_r[1] \notin SMEMBERS(rstore.waits, user_waits_key(ctx, user))

\* C29: a find_wait_by_scope that meets a scope entry whose session is missing,
\* expired or differs from the caller in env, tenant, team or user returns
\* Ok(None) and removes the scope entry and the key from the caller's wait set,
\* in the in-memory store and in the Redis store
C29_FindPrunesStaleScope ==
    rlast.op = "find_wait_by_scope"
        => /\ (RunsMem /\ rlast.stale_m) => (rlast.mem = "None" /\ PrunedMem)
           /\ (RunsRedis /\ rlast.stale_r) => (rlast.red = "None" /\ PrunedRedis)

\* the Redis store pruned a scope whose session another team's wait had overwritten
C29_Witness ==
    /\ rlast.op = "find_wait_by_scope"
    /\ RunsRedis
    /\ rlast.stale_r
    /\ rlast.red = "None"
    /\ session_entry_key(rlast.was_r[1]) \in DOMAIN rstore.entries
    /\ PrunedRedis
\* C26: in the Redis routing store no call that carries a tenant context overwrites
\* or deletes a session whose stored context differs from it in env, tenant,
\* normalized team or user, and a register_wait that names the key of such a
\* session is rejected with InvalidInput
C26_RedisTenantIsolation ==
    rlast.op \in {"create_session", "register_wait", "find_wait_by_scope", "list_waits_for_user",
                  "clear_wait", "find_by_user"}
        => /\ ~rlast.hurt
           /\ rlast.foreign => rlast.red = "InvalidInput"

\* C27: called with the same sequence of calls, without ttl and with the same
\* generated keys, the Redis routing store and the in-memory routing store return
\* the same result for every call
C27_RedisMirrorsMemory == rlast.op # "none" => rlast.same
(***************************************************************************)
(* Part I : what rejected and side calls leave behind                      *)
(***************************************************************************)
\* C31: an update_cas that returns Err changes nothing observable: the next
\* get(key) returns the CAS, and with it the liveness, that a get returned before
\* the call, whatever tenant, CAS or payload the rejected session carried
C31_RejectedUpdateChangesNothing ==
    (lastDone.op = "update_cas" /\ lastDone.res.tag = "Err" /\ ~lastDone.lapsed /\ Quiet)
        => ViewCas(lastDone.key) = lastDone.pre
\* C32: after any sequence of put, update_cas, touch, delete and get calls of one
\* caller, whenever a primary record of (tenant, key) exists, the lookup entry of
\* key exists and names that tenant, so at most one tenant holds a record of key
C32_LookupNamesRecordTenant ==
    Quiet => \A t \in Tenants, k \in Keys :
                 rdata[data_key(t, k)] # <<>>
                     => /\ rlookup[lookup_key(k)] # <<>>
                        /\ rlookup[lookup_key(k)][1].val = t
\* C33: once a put and a get or touch of the same key that found the record missing
\* and purged the lookup entry, run concurrently, have both returned, get(key)
\* returns the put session with the CAS the put returned
C33_PurgeKeepsPutReachable ==
    (lastDone.op \in {"get", "touch"} /\ Quiet)
        => /\ ViewCas(lastDone.key) = lastDone.res.cas
           /\ load_envelope(data_key(lastDone.res.sess[1].tenant_id, lastDone.key))
                  = <<SessionEnvelope(lastDone.res.sess[1], lastDone.res.cas)>>
\* the fields of a session a touch may not change
Untouched(s) == [s EXCEPT !.updated_at = 0, !.ttl_secs = 0]

\* C34: a touch never changes the CAS of a stored record nor any session field
\* other than updated_at and ttl_secs, so it never replaces what a committed
\* update_cas wrote: the script step of a touch leaves every record it changes
\* with the CAS and the other fields it had
C34_TouchKeepsCasAndPayload ==
    [][\A p \in Procs, x \in DOMAIN rdata :
           (pc[p] = "touch_script" /\ pc'[p] # "touch_script" /\ rdata'[x] # rdata[x])
               => /\ rdata[x] # <<>>
                  /\ rdata'[x] # <<>>
                  /\ rdata'[x][1].val.cas = rdata[x][1].val.cas
                  /\ Untouched(rdata'[x][1].val.session) = Untouched(rdata[x][1].val.session)]_vars
\* C39: in the Redis routing store a session registered by register_wait with a
\* ttl is no longer returned by get_session once the ttl has elapsed since the
\* registration, whatever was called on it in between, update_session included
C39_RedisWaitExpires ==
    (/\ rlast.op = "get_session"
     /\ rlast.args.key[1] \in DOMAIN rlast.due
     /\ mnow >= rlast.due[rlast.args.key[1]])
        => rlast.red = "None"

(***************************************************************************)
(* Part II : what a call leaves alone                                      *)
(***************************************************************************)
\* the store after the step
There == Store(sessions', user_waits', scope_index')

\* C35: in the in-memory store a scope-index entry s -> k is taken away only by a call
\* that names scope s (register_wait, clear_wait, find_wait_by_scope) or that removes
\* (remove_session of k), re-registers (register_wait of k) or expires (a read while
\* the session of k is past its deadline) session k itself; no call on another
\* session takes it away
C35_ScopeEntryFrame ==
    [][\A x \in Unbound([st |-> There]) :
           LET k == scope_index[x].session_key
           IN \/ /\ mlast'.op \in {"register_wait", "clear_wait", "find_wait_by_scope"}
                 /\ mlast'.args.scope = <<x>>
              \/ /\ mlast'.op \in {"remove_session", "register_wait"}
                 /\ mlast'.args.key = <<k>>
              \/ /\ mlast'.op \in {"get_session", "find_wait_by_scope", "list_waits_for_user",
                                   "find_by_user"}
                 /\ k \in DOMAIN sessions
                 /\ is_expired(sessions[k].expires_at, mnow')]_vars

\* C38: a successful update_session of the in-memory store replaces the payload only:
\* the deadline, the wait user and the scope key of the entry, every other session,
\* the wait sets and the scope index are as before, and find_wait_by_scope and
\* list_waits_for_user return what they returned before
C38_UpdateReplacesPayloadOnly ==
    [][(mlast'.op = "update_session" /\ mlast'.res.tag = "Ok")
           => LET k == mlast'.args.key[1]
              IN /\ DOMAIN sessions' = DOMAIN sessions
                 /\ k \in DOMAIN sessions
                 /\ sessions'[k].expires_at = sessions[k].expires_at
                 /\ sessions'[k].wait_user = sessions[k].wait_user
                 /\ sessions'[k].scope_key = sessions[k].scope_key
                 /\ \A j \in DOMAIN sessions \ {k} : sessions'[j] = sessions[j]
                 /\ user_waits' = user_waits
                 /\ scope_index' = scope_index
                 /\ \A ctx \in FindCtxs, user \in Users :
                        /\ list_waits_for_user(There, ctx, user, mnow).res
                               = list_waits_for_user(Here, ctx, user, mnow).res
                        /\ \A scope \in Scopes :
                               find_wait_by_scope(There, ctx, user, scope, mnow).res
                                   = find_wait_by_scope(Here, ctx, user, scope, mnow).res]_vars

\* an update of a registered wait that has a deadline and is bound in the scope index
C38_Witness ==
    /\ mlast.op = "update_session"
    /\ mlast.res.tag = "Ok"
    /\ mlast.args.key[1] \in DOMAIN sessions
    /\ LET entry == sessions[mlast.args.key[1]]
       IN /\ entry.expires_at # <<>>
          /\ entry.wait_user # <<>>
          /\ entry.data.context_json = 2
          /\ entry.scope_key # <<>>
          /\ entry.scope_key[1] \in DOMAIN scope_index
          /\ scope_index[entry.scope_key[1]].session_key = mlast.args.key[1]

(***************************************************************************)
(* Part II : writes to a session past its deadline                         *)
(***************************************************************************)
\* the store with no session under key
Without(st, key) == [st EXCEPT !.sessions = MapDel(@, key)]

\* C40: in the in-memory store a session past its deadline is absent for the writes
\* too, before any read has purged it: update_session and remove_session of its key
\* return NotFound, and register_wait of its key returns what it returns for a key
\* that holds no session
C40_ExpiredIsAbsent ==
    [][\A k \in DOMAIN sessions :
           (/\ is_expired(sessions[k].expires_at, mnow)
            /\ mnow' = mnow
            /\ mlast'.args.key = <<k>>)
               => /\ mlast'.op \in {"update_session", "remove_session"} => mlast'.res.tag = "NotFound"
                  /\ mlast'.op = "register_wait"
                        => \A scope \in Scopes :
                               mlast'.res.tag = register_wait(Without(Here, k), mlast'.args.ctx[1],
                                                              mlast'.args.user[1], scope, k,
                                                              mlast'.args.data[1], mlast'.args.ttl,
                                                              mnow).res.tag]_vars

(***************************************************************************)
(* Part IV : properties of the store under concurrent callers              *)
(***************************************************************************)
\* the guards held by a thread paired with the lock its next step takes
Nested(t) == IF Wants(threads[t]) = "none" THEN {}
             ELSE {<<h, Wants(threads[t])>> : h \in threads[t].holds}

\* the order the locks are taken in: sessions, scope_index, user_waits
LockOrder == {<<"sessions", "scope_index">>, <<"sessions", "user_waits">>, <<"scope_index", "user_waits">>}

\* every call returns
Returns == \A t \in Threads : (threads[t].pc # "idle") ~> (threads[t].pc = "idle")

\* C37 as stated: under fair lock scheduling every call returns, no operation takes a
\* lock it already holds, and the only lock taken while another is held is user_waits
\* under scope_index, in register_wait
C37_OnlyRegisterWaitNests ==
    /\ Returns
    /\ [](\A t \in Threads :
             /\ Wants(threads[t]) \notin threads[t].holds
             /\ Nested(t) # {} => /\ threads[t].op = "register_wait"
                                  /\ Nested(t) = {<<"scope_index", "user_waits">>})

\* C37, amended: under fair lock scheduling every call returns, no operation takes a
\* lock it already holds, and a lock is taken while another is held only in the order
\* sessions, scope_index, user_waits (remove_session purges the indices under its
\* sessions guard, register_wait removes a replaced wait under its scope_index guard)
C37_LocksTakenInOrder ==
    /\ Returns
    /\ [](\A t \in Threads :
             /\ Wants(threads[t]) \notin threads[t].holds
             /\ Nested(t) \subseteq LockOrder
             /\ Nested(t) # {} => threads[t].op \in {"remove_session", "register_wait"})

\* register_wait waits for user_waits under its scope_index guard while remove_session
\* waits for an index under its sessions guard
C37_Witness ==
    \E t \in Threads, u \in Threads :
        /\ Nested(t) = {<<"scope_index", "user_waits">>}
        /\ threads[u].op = "remove_session"
        /\ Nested(u) # {}

\* C36: two register_wait calls of the in-memory store that run side by side, name the
\* same key that held no session and carry data of different tenant contexts do not
\* both return Ok
C36_OneRegistrationWins ==
    \A t \in Threads, u \in Threads :
        ~ /\ t # u
          /\ threads[t].pc = "done" /\ threads[t].op = "register_wait" /\ threads[t].fresh
          /\ threads[u].pc = "done" /\ threads[u].op = "register_wait" /\ threads[u].fresh
          /\ threads[t].key = threads[u].key
          /\ Fence(threads[t].data[1].tenant_ctx) # Fence(threads[u].data[1].tenant_ctx)
====
